---- MODULE Spec2Model ----
(***************************************************************************)
(* Poseidon main process (src/src/main/main.ts): the tab registry, the     *)
(* engine-event listeners installed by createTab, the tab commands of      *)
(* setupIPC, the request interceptors and the window lifecycle, together  *)
(* with the part of the organization store (./store, not part of the       *)
(* sources at hand) that the tab code calls.                               *)
(*                                                                         *)
(* Strings that the code inspects (URLs, user input) are sequences of      *)
(* one-character strings, so that startsWith, trim, the regular            *)
(* expressions of normalizeUrl and encodeURIComponent are computed, not    *)
(* assumed.  Tab ids `tab-<counter>-<time>` are represented by <counter>.  *)
(***************************************************************************)
EXTENDS Integers, Sequences, FiniteSets, TLC

VARIABLES
    tabs,           \* keys of the Map `tabs`, in insertion order
    tab,            \* the Tab objects ever built (also the detached ones), by id
    activeTabId,    \* id of the active tab, NULL when there is none
    tabIdCounter,   \* the id generator's counter
    destroyCount,   \* per id: calls of view.webContents.destroy()
    win,            \* "none" (null), "loading" (created), "ready" (UI loaded)
    realms,         \* store: realm id -> [order]
    docks,          \* store: dock id -> [realmId, order]
    activeRealmId,  \* store: the active-realm pointer
    tabOrg,         \* store: tab id -> [realmId, dockId, order, isPinned]
    realmIdCounter, \* store: realms created so far in this profile
    dockIdCounter,  \* store: docks created so far in this profile
    searchEngine,   \* settings: defaultSearchEngine
    blocker,        \* TRUE when the ElectronBlocker was built, FALSE for null
    adBlockEnabled, \* content filtering is switched on
    httpsUpgradeEnabled, \* HTTPS upgrade is switched on
    blockedCount,   \* requests and popups blocked since start or reset
    httpsUpgradeCount, \* requests upgraded since start or reset
    interceptor,    \* per network session: the onBeforeRequest listener installed
    settings,       \* settingsStore: the stored switches of the gateway
    sent,           \* notifications sent to the renderer by the last step
    hist,           \* calls to the history module made by the last step
    loads,          \* view.webContents.loadURL calls made by the last step
    lastOp          \* the last operation: its name, id, `success` and options

vars == <<tabs, tab, activeTabId, tabIdCounter, destroyCount, win, realms, docks,
          activeRealmId, tabOrg, realmIdCounter, dockIdCounter, searchEngine,
          blocker, adBlockEnabled, httpsUpgradeEnabled, blockedCount,
          httpsUpgradeCount, interceptor, settings, sent, hist, loads, lastOp>>

----------------------------------------------------------------------------
(* Bounds of the model *)

\* ids the generator may hand out in one run of the lifecycle specification
MaxTabId == 3

\* ids the generator may hand out in one run of the event specification
MaxEvTabId == 2

\* ids the generator may hand out in one run of the placement specification
MaxPlTabId == 2

\* ids the generator may hand out in one run of the organization specification
MaxOrgTabId == 1

\* ids the generator may hand out in one run of the realm specification
MaxRealmTabId == 1

\* ids the generator may hand out in one run of the internal-page specification
MaxUrlTabId == 2

\* ids the generator may hand out in one run of the address-bar specification
MaxNormTabId == 1

\* ids the generator may hand out in one run of the display-state specification
MaxDispTabId == 1

\* ids the generator may hand out in one run of the gateway specification
MaxGwTabId == 1

\* values the blocked and upgraded counters may reach in one run
MaxBlockedCount == 2

\* ids the generator may hand out in one run of the dock specification
MaxDockTabId == 2

\* ids the generator may hand out in one run of the ordering specification
MaxOrderTabId == 2


----------------------------------------------------------------------------
(* Strings as sequences of characters *)

Lower == {"a","b","c","d","e","f","g","h","i","j","k","l","m",
          "n","o","p","q","r","s","t","u","v","w","x","y","z"}
Upper == {"A","B","C","D","E","F","G","H","I","J","K","L","M",
          "N","O","P","Q","R","S","T","U","V","W","X","Y","Z"}
Digit == {"0","1","2","3","4","5","6","7","8","9"}
Letter == Lower \cup Upper
AlnumDash == Letter \cup Digit \cup {"-"}

StartsWith(s, p) == Len(s) >= Len(p) /\ SubSeq(s, 1, Len(p)) = p
Drop(s, n) == SubSeq(s, n + 1, Len(s))
AllIn(s, S) == \A i \in 1..Len(s) : s[i] \in S

\* index of the first / last occurrence of character c in s, 0 when absent
FirstIndex(s, c) ==
    IF \E i \in 1..Len(s) : s[i] = c
    THEN CHOOSE i \in 1..Len(s) : s[i] = c /\ \A j \in 1..(i - 1) : s[j] # c
    ELSE 0
LastIndex(s, c) ==
    IF \E i \in 1..Len(s) : s[i] = c
    THEN CHOOSE i \in 1..Len(s) : s[i] = c /\ \A j \in (i + 1)..Len(s) : s[j] # c
    ELSE 0

\* String.prototype.trim over the blank character
RECURSIVE TrimLeft(_)
TrimLeft(s) == IF s # <<>> /\ Head(s) = " " THEN TrimLeft(Tail(s)) ELSE s
RECURSIVE TrimRight(_)
TrimRight(s) ==
    IF s # <<>> /\ s[Len(s)] = " " THEN TrimRight(SubSeq(s, 1, Len(s) - 1)) ELSE s
Trim(s) == TrimRight(TrimLeft(s))

S_http == <<"h","t","t","p",":","/","/">>
S_https == <<"h","t","t","p","s",":","/","/">>
S_poseidon == <<"p","o","s","e","i","d","o","n",":","/","/">>
S_about == <<"a","b","o","u","t",":">>
S_localhost == <<"l","o","c","a","l","h","o","s","t">>
S_loopback == <<"1","2","7",".","0",".","0",".","1">>
U_newtab == S_poseidon \o <<"n","e","w","t","a","b">>
U_settings == S_poseidon \o <<"s","e","t","t","i","n","g","s">>
U_blank == S_about \o <<"b","l","a","n","k">>

\* the remainders an optional leading (https?:\/\/)? group can leave
AfterOptScheme(s) ==
    {s} \cup (IF StartsWith(s, S_https) THEN {Drop(s, Len(S_https))} ELSE {})
        \cup (IF StartsWith(s, S_http) THEN {Drop(s, Len(S_http))} ELSE {})

\* ([a-zA-Z0-9-]+\.)+[a-zA-Z]{2,}  against the whole of h
HostMatches(h) ==
    LET d == LastIndex(h, ".")
        labels == SubSeq(h, 1, d)          \* (label.)+ , ends with the last dot
        tld == Drop(h, d)
    IN  /\ d > 1
        /\ Len(tld) >= 2 /\ AllIn(tld, Letter)
        /\ AllIn(labels, AlnumDash \cup {"."})
        /\ labels[1] # "."
        /\ \A i \in 1..(Len(labels) - 1) : ~(labels[i] = "." /\ labels[i + 1] = ".")

\* ([a-zA-Z0-9-]+\.)+[a-zA-Z]{2,}(\/.*)?$  against r
UrlRestMatches(r) ==
    LET slash == FirstIndex(r, "/")
    IN  HostMatches(IF slash = 0 THEN r ELSE SubSeq(r, 1, slash - 1))

\* (:\d+)?(\/.*)?$  against t
PortPathMatches(t) ==
    \/ t = <<>>
    \/ t[1] = "/"
    \/ /\ t[1] = ":"
       /\ LET u == Tail(t)
              slash == FirstIndex(u, "/")
              port == IF slash = 0 THEN u ELSE SubSeq(u, 1, slash - 1)
          IN  Len(port) >= 1 /\ AllIn(port, Digit)

\* (localhost|127\.0\.0\.1)(:\d+)?(\/.*)?$  against r
LocalRestMatches(r) ==
    \/ StartsWith(r, S_localhost) /\ PortPathMatches(Drop(r, Len(S_localhost)))
    \/ StartsWith(r, S_loopback) /\ PortPathMatches(Drop(r, Len(S_loopback)))

urlPattern(s) == \E r \in AfterOptScheme(s) : UrlRestMatches(r)
localhostPattern(s) == \E r \in AfterOptScheme(s) : LocalRestMatches(r)
internalPattern(s) == StartsWith(s, S_poseidon)
aboutPattern(s) == StartsWith(s, S_about)

\* encodeURIComponent, per character
Unreserved == Letter \cup Digit \cup {"-", "_", ".", "!", "~", "*", "'", "(", ")"}
PercentCode(c) ==
    CASE c = " " -> <<"%","2","0">>
      [] c = ":" -> <<"%","3","A">>
      [] c = "/" -> <<"%","2","F">>
      [] c = "?" -> <<"%","3","F">>
      [] c = "=" -> <<"%","3","D">>
      [] c = "#" -> <<"%","2","3">>
      [] c = "&" -> <<"%","2","6">>
      [] c = "%" -> <<"%","2","5">>
      [] c = "+" -> <<"%","2","B">>
      [] c = "@" -> <<"%","4","0">>
RECURSIVE encodeURIComponent(_)
encodeURIComponent(s) ==
    IF s = <<>> THEN <<>>
    ELSE (IF Head(s) \in Unreserved THEN <<Head(s)>> ELSE PercentCode(Head(s)))
         \o encodeURIComponent(Tail(s))

Q_duckduckgo == S_https \o <<"d","u","c","k","d","u","c","k","g","o",".","c","o","m","/","?","q","=">>
Q_bing == S_https \o <<"w","w","w",".","b","i","n","g",".","c","o","m","/","s","e","a","r","c","h","?","q","=">>
Q_brave == S_https \o <<"s","e","a","r","c","h",".","b","r","a","v","e",".","c","o","m","/","s","e","a","r","c","h","?","q","=">>
Q_google == S_https \o <<"w","w","w",".","g","o","o","g","l","e",".","c","o","m","/","s","e","a","r","c","h","?","q","=">>

\* mutant: the query is appended as it was typed
getSearchUrl_unencoded(query, engine) ==
    (CASE engine = "duckduckgo" -> Q_duckduckgo
       [] engine = "bing" -> Q_bing
       [] engine = "brave" -> Q_brave
       [] OTHER -> Q_google) \o query

getSearchUrl(query, engine) ==
    (CASE engine = "duckduckgo" -> Q_duckduckgo
       [] engine = "bing" -> Q_bing
       [] engine = "brave" -> Q_brave
       [] OTHER -> Q_google) \o encodeURIComponent(query)

normalizeUrl(input, engine) ==
    LET url == Trim(input)
    IN  IF urlPattern(url) \/ localhostPattern(url) \/ internalPattern(url) \/ aboutPattern(url)
        THEN IF ~StartsWith(url, S_http) /\ ~StartsWith(url, S_https)
                /\ ~StartsWith(url, S_poseidon) /\ ~StartsWith(url, S_about)
             THEN S_https \o url
             ELSE url
        ELSE getSearchUrl(url, engine)

----------------------------------------------------------------------------
(* The program state as one value, so that functions that call each other  *)
(* (closeTab -> switchToTab / createTab) compose as they do in the code.   *)

NULL == 0
NoDock == "null"

Cur ==
    [tabs |-> tabs, tab |-> tab, activeTabId |-> activeTabId,
     tabIdCounter |-> tabIdCounter, destroyCount |-> destroyCount, win |-> win,
     realms |-> realms, docks |-> docks, activeRealmId |-> activeRealmId,
     tabOrg |-> tabOrg, realmIdCounter |-> realmIdCounter,
     dockIdCounter |-> dockIdCounter, searchEngine |-> searchEngine,
     blocker |-> blocker, adBlockEnabled |-> adBlockEnabled,
     httpsUpgradeEnabled |-> httpsUpgradeEnabled, blockedCount |-> blockedCount,
     httpsUpgradeCount |-> httpsUpgradeCount,
     interceptor |-> interceptor, settings |-> settings,
     sent |-> sent, hist |-> hist, loads |-> loads]

\* a handler starts with nothing sent yet
Begin == [Cur EXCEPT !.sent = <<>>, !.hist = <<>>, !.loads = <<>>]

Commit(S, op) ==
    /\ tabs' = S.tabs
    /\ tab' = S.tab
    /\ activeTabId' = S.activeTabId
    /\ tabIdCounter' = S.tabIdCounter
    /\ destroyCount' = S.destroyCount
    /\ win' = S.win
    /\ realms' = S.realms
    /\ docks' = S.docks
    /\ activeRealmId' = S.activeRealmId
    /\ tabOrg' = S.tabOrg
    /\ realmIdCounter' = S.realmIdCounter
    /\ dockIdCounter' = S.dockIdCounter
    /\ searchEngine' = S.searchEngine
    /\ blocker' = S.blocker
    /\ adBlockEnabled' = S.adBlockEnabled
    /\ httpsUpgradeEnabled' = S.httpsUpgradeEnabled
    /\ interceptor' = S.interceptor
    /\ settings' = S.settings
    /\ blockedCount' = S.blockedCount
    /\ httpsUpgradeCount' = S.httpsUpgradeCount
    /\ sent' = S.sent
    /\ hist' = S.hist
    /\ loads' = S.loads
    /\ lastOp' = op

Range(s) == {s[i] : i \in 1..Len(s)}
Live(S) == Range(S.tabs)
SetMax(X) == CHOOSE x \in X : \A y \in X : y <= x
Without(f, k) == [x \in (DOMAIN f) \ {k} |-> f[x]]
RemoveKey(s, k) == SelectSeq(s, LAMBDA x : x # k)

\* `win && !win.isDestroyed()`
WinAlive(S) == S.win # "none"

Send(S, msg) == IF WinAlive(S) THEN [S EXCEPT !.sent = Append(@, msg)] ELSE S

----------------------------------------------------------------------------
(* Organization store: the functions of ./store that the tab code calls.   *)

\* order values in use in one container: a dock, or the loose set of a realm
ContainerOrders(S, realmId, dockId, except) ==
    {S.tabOrg[t].order : t \in {u \in (DOMAIN S.tabOrg) \ {except} :
        IF dockId # NoDock
        THEN S.tabOrg[u].dockId = dockId
        ELSE S.tabOrg[u].dockId = NoDock /\ S.tabOrg[u].realmId = realmId}}

\* a fresh order that places a tab at the end of the container
EndOrder(S, realmId, dockId, except) ==
    LET used == ContainerOrders(S, realmId, dockId, except)
    IN  IF used = {} THEN 0 ELSE SetMax(used) + 1

Pinned(S, tabId) == tabId \in DOMAIN S.tabOrg /\ S.tabOrg[tabId].isPinned

Place(S, tabId, realmId, dockId) ==
    [S EXCEPT !.tabOrg =
        (tabId :> [realmId |-> realmId, dockId |-> dockId,
                   order |-> EndOrder(S, realmId, dockId, tabId),
                   isPinned |-> Pinned(S, tabId)]) @@ @]

\* each mutator yields the new state and its boolean result
moveTabToDock(S, tabId, dockId) ==
    IF dockId \in DOMAIN S.docks
    THEN [s |-> Place(S, tabId, S.docks[dockId].realmId, dockId), ok |-> TRUE]
    ELSE [s |-> S, ok |-> FALSE]

moveTabToRealm(S, tabId, realmId) ==
    IF realmId \in DOMAIN S.realms
    THEN [s |-> Place(S, tabId, realmId, NoDock), ok |-> TRUE]
    ELSE [s |-> S, ok |-> FALSE]

assignTabToActiveRealm(S, tabId) == Place(S, tabId, S.activeRealmId, NoDock)

\* yields the new state and whether the realm exists
setActiveRealmId(S, realmId) ==
    IF realmId \in DOMAIN S.realms
    THEN [s |-> [S EXCEPT !.activeRealmId = realmId], ok |-> TRUE]
    ELSE [s |-> S, ok |-> FALSE]

removeTabOrganization(S, tabId) == [S EXCEPT !.tabOrg = Without(@, tabId)]

\* the placement of tabId, as a sequence: <<>> stands for undefined
getTabOrganization(S, tabId) ==
    IF tabId \in DOMAIN S.tabOrg THEN <<S.tabOrg[tabId]>> ELSE <<>>

\* the ids the store gives to the realms and docks it creates, by counter:
\* the initial ones, and one more of each that a command can create
RealmIds == <<"r1", "r2", "r3">>
DockIds == <<"d1", "d2">>

SetMin(X) == CHOOSE x \in X : \A y \in X : x <= y
DocksOf(S, realmId) == {d \in DOMAIN S.docks : S.docks[d].realmId = realmId}

\* a placement's effective realm: its dock's realm when it is docked
EffectiveRealm(S, tabId) ==
    IF S.tabOrg[tabId].dockId # NoDock /\ S.tabOrg[tabId].dockId \in DOMAIN S.docks
    THEN S.docks[S.tabOrg[tabId].dockId].realmId
    ELSE S.tabOrg[tabId].realmId

\* the order that places a dock at the end of a realm's dock list
EndDockOrder(S, realmId, except) ==
    LET used == {S.docks[d].order : d \in DocksOf(S, realmId) \ {except}}
    IN  IF used = {} THEN 0 ELSE SetMax(used) + 1

\* placements reassigned by a cascade become loose in realmId.  The spec does
\* not say which order they receive: keepOrder tells whether they keep the
\* one they had or go to the end of the loose set, one after the other.
RECURSIVE ReassignLoose(_, _, _, _)
ReassignLoose(S, ids, realmId, keepOrder) ==
    IF ids = {} THEN S
    ELSE LET t == SetMin(ids)
             S1 == IF keepOrder
                   THEN [S EXCEPT !.tabOrg[t].realmId = realmId, !.tabOrg[t].dockId = NoDock]
                   ELSE Place(S, t, realmId, NoDock)
         IN  ReassignLoose(S1, ids \ {t}, realmId, keepOrder)

\* createRealm: order max+1; yields the new state and the new realm's id
createRealmFromParams(S) ==
    LET id == RealmIds[S.realmIdCounter + 1]
        orders == {S.realms[r].order : r \in DOMAIN S.realms}
    IN  [s |-> [S EXCEPT !.realmIdCounter = @ + 1,
                         !.realms = (id :> [order |-> SetMax(orders) + 1]) @@ @],
         id |-> id]

\* the realm that follows realmId in order, wrapping to the first
NextRealmInOrder(S, realmId) ==
    LET rest == (DOMAIN S.realms) \ {realmId}
        later == {r \in rest : S.realms[r].order > S.realms[realmId].order}
        pool == IF later # {} THEN later ELSE rest
    IN  CHOOSE r \in pool : \A q \in pool : S.realms[r].order <= S.realms[q].order

\* deleteRealm: rejected for an unknown realm and for the only realm; deletes
\* the realm's docks and reassigns its placements to the next realm.  The
\* active pointer is not touched.
deleteRealm(S, realmId, keepOrder) ==
    IF realmId \notin DOMAIN S.realms \/ Cardinality(DOMAIN S.realms) <= 1
    THEN [s |-> S, ok |-> FALSE]
    ELSE LET target == NextRealmInOrder(S, realmId)
             moved == {t \in DOMAIN S.tabOrg : EffectiveRealm(S, t) = realmId}
             S1 == ReassignLoose(S, moved, target, keepOrder)
         IN  [s |-> [S1 EXCEPT !.realms = Without(@, realmId),
                               !.docks = [d \in (DOMAIN @) \ DocksOf(S, realmId) |-> @[d]]],
              ok |-> TRUE]

\* createDock: null (<<>>) for an unknown realm, else the new dock's id
createDockFromParams(S, realmId) ==
    IF realmId \notin DOMAIN S.realms THEN [s |-> S, dock |-> <<>>]
    ELSE LET id == DockIds[S.dockIdCounter + 1]
         IN  [s |-> [S EXCEPT !.dockIdCounter = @ + 1,
                              !.docks = (id :> [realmId |-> realmId,
                                                order |-> EndDockOrder(S, realmId, id)]) @@ @],
              dock |-> <<id>>]

\* mutant: the dock goes, the placements that name it stay as they are
deleteDock_leavesPlacements(S, dockId, keepOrder) ==
    IF dockId \notin DOMAIN S.docks THEN [s |-> S, ok |-> FALSE]
    ELSE [s |-> [S EXCEPT !.docks = Without(@, dockId)], ok |-> TRUE]

\* deleteDock: its placements become loose in the realm the dock belongs to
deleteDock(S, dockId, keepOrder) ==
    IF dockId \notin DOMAIN S.docks THEN [s |-> S, ok |-> FALSE]
    ELSE LET moved == {t \in DOMAIN S.tabOrg : S.tabOrg[t].dockId = dockId}
             S1 == ReassignLoose(S, moved, S.docks[dockId].realmId, keepOrder)
         IN  [s |-> [S1 EXCEPT !.docks = Without(@, dockId)], ok |-> TRUE]

\* moveDockToRealm: the placements of the dock's tabs are not touched
moveDockToRealm(S, dockId, newRealmId) ==
    IF dockId \notin DOMAIN S.docks \/ newRealmId \notin DOMAIN S.realms
    THEN [s |-> S, ok |-> FALSE]
    ELSE [s |-> [S EXCEPT !.docks[dockId] =
                    [realmId |-> newRealmId,
                     order |-> EndDockOrder(S, newRealmId, dockId)]],
          ok |-> TRUE]

\* position of x in the list, counted from 0
IndexOf(list, x) == (CHOOSE i \in 1..Len(list) : list[i] = x) - 1

\* reorderDocks: order becomes the list index; ids outside the realm are ignored
reorderDocks(S, realmId, dockIds) ==
    IF realmId \notin DOMAIN S.realms THEN [s |-> S, ok |-> FALSE]
    ELSE [s |-> [S EXCEPT !.docks = [d \in DOMAIN @ |->
                    IF d \in Range(dockIds) /\ @[d].realmId = realmId
                    THEN [@[d] EXCEPT !.order = IndexOf(dockIds, d)] ELSE @[d]]],
          ok |-> TRUE]

\* moveTabToLoose with a realmId
moveTabToLoose(S, tabId, realmId) ==
    IF realmId \in DOMAIN S.realms
    THEN [s |-> Place(S, tabId, realmId, NoDock), ok |-> TRUE]
    ELSE [s |-> S, ok |-> FALSE]

\* pinTab / unpinTab: isPinned only; false for a tab the store does not know
setPinned(S, tabId, pinned) ==
    IF tabId \in DOMAIN S.tabOrg
    THEN [s |-> [S EXCEPT !.tabOrg[tabId].isPinned = pinned], ok |-> TRUE]
    ELSE [s |-> S, ok |-> FALSE]

pinTab(S, tabId) == setPinned(S, tabId, TRUE)
unpinTab(S, tabId) == setPinned(S, tabId, FALSE)

\* order becomes the list index for each listed id that is in the container
Reordered(S, container, tabIds) ==
    [S EXCEPT !.tabOrg = [t \in DOMAIN @ |->
        IF t \in Range(tabIds) /\ t \in container
        THEN [@[t] EXCEPT !.order = IndexOf(tabIds, t)] ELSE @[t]]]

reorderTabsInDock(S, dockId, tabIds) ==
    IF dockId \notin DOMAIN S.docks THEN [s |-> S, ok |-> FALSE]
    ELSE [s |-> Reordered(S, {t \in DOMAIN S.tabOrg : S.tabOrg[t].dockId = dockId}, tabIds),
          ok |-> TRUE]

reorderLooseTabs(S, realmId, tabIds) ==
    IF realmId \notin DOMAIN S.realms THEN [s |-> S, ok |-> FALSE]
    ELSE [s |-> Reordered(S, {t \in DOMAIN S.tabOrg : S.tabOrg[t].dockId = NoDock
                                         /\ S.tabOrg[t].realmId = realmId}, tabIds),
          ok |-> TRUE]

----------------------------------------------------------------------------
(* Notifications to the renderer *)

\* the fields every tab payload carries; org is <<>> when the tab has no placement
TabPayload(S, id) ==
    [id |-> id, title |-> S.tab[id].title, url |-> S.tab[id].url,
     favicon |-> S.tab[id].favicon, isLoading |-> S.tab[id].isLoading,
     org |-> getTabOrganization(S, id)]

\* what tab.view.webContents.canGoBack() / canGoForward() answer is the
\* engine's business: the payload records which view was asked
ViewCanGoBack(id) == <<"canGoBack", id>>
ViewCanGoForward(id) == <<"canGoForward", id>>

sendTabUpdate(S, id) ==
    Send(S, [ch |-> "tab-updated", tab |-> TabPayload(S, id)])

sendTabsUpdate(S) ==
    Send(S, [ch |-> "tabs-updated",
             list |-> [i \in 1..Len(S.tabs) |-> TabPayload(S, S.tabs[i])]])

sendActiveTabUpdate(S) ==
    Send(S,
        IF S.activeTabId # NULL /\ S.activeTabId \in Live(S)
        THEN [ch |-> "active-tab-changed",
              tab |-> <<[id |-> S.activeTabId,
                         title |-> S.tab[S.activeTabId].title,
                         url |-> S.tab[S.activeTabId].url,
                         favicon |-> S.tab[S.activeTabId].favicon,
                         isLoading |-> S.tab[S.activeTabId].isLoading,
                         canGoBack |-> ViewCanGoBack(S.activeTabId),
                         canGoForward |-> ViewCanGoForward(S.activeTabId)]>>]
        ELSE [ch |-> "active-tab-changed", tab |-> <<>>])

addHistoryEntry(S, id, url) ==
    [S EXCEPT !.hist = Append(@, [call |-> "add", url |-> url,
                                  title |-> S.tab[id].title, favicon |-> S.tab[id].favicon])]

updateHistoryEntry(S, id) ==
    [S EXCEPT !.hist = Append(@, [call |-> "update", url |-> S.tab[id].url,
                                  title |-> S.tab[id].title, favicon |-> S.tab[id].favicon])]

----------------------------------------------------------------------------
(* Tab management *)

NoOptions == [realmId |-> "", dockId |-> ""]

\* mutant: the renderer is told before the pointer moves
switchToTab_notifyFirst(S, tabId) ==
    IF tabId \notin Live(S) THEN S
    ELSE sendTabUpdate([sendActiveTabUpdate(S) EXCEPT !.activeTabId = tabId], tabId)

switchToTab(S, tabId) ==
    IF tabId \notin Live(S) THEN S
    ELSE sendTabUpdate(sendActiveTabUpdate([S EXCEPT !.activeTabId = tabId]), tabId)

\* mutant: realmId is looked at before dockId
createTabPlacement_realmFirst(S, id, options) ==
    IF options.realmId # "" THEN moveTabToRealm(S, id, options.realmId).s
    ELSE IF options.dockId # "" THEN moveTabToDock(S, id, options.dockId).s
    ELSE assignTabToActiveRealm(S, id)

\* createTab, lines 207-215: assign the tab to a realm or dock
createTabPlacement(S, id, options) ==
    IF options.dockId # "" THEN moveTabToDock(S, id, options.dockId).s
    ELSE IF options.realmId # "" THEN moveTabToRealm(S, id, options.realmId).s
    ELSE assignTabToActiveRealm(S, id)

\* mutant: the id is derived from the number of registered tabs
generateTabId_fromSize(S) ==
    [s |-> [S EXCEPT !.tabIdCounter = @ + 1], id |-> Len(S.tabs) + 1]

\* generateTabId: `tab-${++tabIdCounter}-${Date.now()}`.  The counter part
\* alone tells two ids apart, so an id is represented by its counter value.
generateTabId(S) ==
    [s |-> [S EXCEPT !.tabIdCounter = @ + 1], id |-> S.tabIdCounter + 1]

\* createTab(url, options); url <<>> stands for an omitted url, "" for an
\* omitted option.  The new tab's id is the new value of tabIdCounter.
createTab(S, urlArg, options) ==
    LET url == IF urlArg = <<>> THEN U_newtab ELSE urlArg
        gen == generateTabId(S)
        id == gen.id
        S1 == [gen.s EXCEPT !.destroyCount = (id :> 0) @@ @]
        S2 == createTabPlacement(S1, id, options)
        org == getTabOrganization(S2, id)
        S3 == IF org # <<>>
              THEN Send(S2, [ch |-> "tab-organization-changed", tabId |-> id, org |-> org])
              ELSE S2
        internal == url = U_newtab \/ url = U_settings
        S4 == [S3 EXCEPT
                 !.tab = (id :> [title |-> "New Tab", url |-> url, favicon |-> "",
                                 isLoading |-> FALSE, internal |-> internal]) @@ @,
                 !.tabs = Append(@, id),
                 !.loads = Append(@, [id |-> id,
                                      url |-> IF internal THEN U_blank
                                              ELSE normalizeUrl(url, S.searchEngine)])]
    IN  sendTabsUpdate(S4)

\* mutant: the placement is left in the store
closeTabRemove_keepOrg(S, tabId) ==
    [S EXCEPT !.destroyCount[tabId] = @ + 1, !.tabs = RemoveKey(@, tabId)]

\* closeTab, lines 368-376: placement removed, view destroyed, Map entry deleted
closeTabRemove(S, tabId) ==
    LET S1 == removeTabOrganization(S, tabId)
    IN  [S1 EXCEPT !.destroyCount[tabId] = @ + 1, !.tabs = RemoveKey(@, tabId)]

\* mutant: no replacement tab when the last one is closed
closeTabReactivate_noRespawn(S, tabId) ==
    IF S.activeTabId = tabId
    THEN IF Len(S.tabs) > 0
         THEN switchToTab(S, S.tabs[Len(S.tabs)])
         ELSE [S EXCEPT !.activeTabId = NULL]
    ELSE S

\* mutant: activation falls to the first remaining key
closeTabReactivate_first(S, tabId) ==
    IF S.activeTabId = tabId
    THEN IF Len(S.tabs) > 0
         THEN switchToTab(S, S.tabs[1])
         ELSE LET S4 == createTab([S EXCEPT !.activeTabId = NULL], <<>>, NoOptions)
              IN  switchToTab(S4, S4.tabIdCounter)
    ELSE S

\* closeTab, lines 378-389: if the closed tab was the active one
closeTabReactivate(S, tabId) ==
    IF S.activeTabId = tabId
    THEN IF Len(S.tabs) > 0
         THEN switchToTab(S, S.tabs[Len(S.tabs)])
         ELSE LET S4 == createTab([S EXCEPT !.activeTabId = NULL], <<>>, NoOptions)
              IN  switchToTab(S4, S4.tabIdCounter)
    ELSE S

\* mutant: the list is broadcast also when the id is unknown
closeTab_alwaysNotifies(S, tabId) ==
    IF tabId \notin Live(S) THEN sendTabsUpdate(S)
    ELSE sendTabsUpdate(closeTabReactivate(closeTabRemove(S, tabId), tabId))

closeTab(S, tabId) ==
    IF tabId \notin Live(S) THEN S
    ELSE sendTabsUpdate(closeTabReactivate(closeTabRemove(S, tabId), tabId))

\* mutant: leaving the placeholder page throws the tab's view away
navigateTab_dropsView(S, tabId, url) ==
    IF tabId \notin Live(S) THEN S
    ELSE
      LET normalizedUrl == normalizeUrl(url, S.searchEngine)
          S0 == IF S.tab[tabId].internal THEN [S EXCEPT !.destroyCount[tabId] = @ + 1] ELSE S
          S1 == sendTabUpdate([S0 EXCEPT !.tab[tabId].url = normalizedUrl], tabId)
      IN  Send(S1, [ch |-> "navigate-to-url", tabId |-> tabId, url |-> normalizedUrl])

\* mutant: the raw input is stored and signalled as it was typed
navigateTab_rawUrl(S, tabId, url) ==
    IF tabId \notin Live(S) THEN S
    ELSE
      LET S1 == sendTabUpdate([S EXCEPT !.tab[tabId].url = url], tabId)
      IN  Send(S1, [ch |-> "navigate-to-url", tabId |-> tabId, url |-> url])

navigateTab(S, tabId, url) ==
    IF tabId \notin Live(S) THEN S
    ELSE
      LET normalizedUrl == normalizeUrl(url, S.searchEngine)
          S1 == sendTabUpdate([S EXCEPT !.tab[tabId].url = normalizedUrl], tabId)
      IN  Send(S1, [ch |-> "navigate-to-url", tabId |-> tabId, url |-> normalizedUrl])

\* mutant: the views are destroyed but the Map is not cleared
windowAllClosed_noClear(S) ==
    [S EXCEPT !.destroyCount = [i \in DOMAIN @ |-> IF i \in Live(S) THEN @[i] + 1 ELSE @[i]],
              !.win = "none"]

\* app.on('window-all-closed'): every view is destroyed, the Map is cleared
windowAllClosed(S) ==
    [S EXCEPT !.destroyCount = [i \in DOMAIN @ |-> IF i \in Live(S) THEN @[i] + 1 ELSE @[i]],
              !.tabs = <<>>,
              !.win = "none"]

----------------------------------------------------------------------------
(* Engine-event listeners that createTab installs on view.webContents.     *)
(* They close over the Tab object, so they act on S.tab[id] whether or not *)
(* id is still a key of the Map.                                           *)

\* mutant: the flag of an internal page is not looked at
AcceptsNavigation_unflagged(S, id, url) == TRUE

\* `!tab._isInternalPage || !url.startsWith('about:')`
AcceptsNavigation(S, id, url) == ~S.tab[id].internal \/ ~StartsWith(url, S_about)

onDidStartLoading(S, id) ==
    sendTabUpdate([S EXCEPT !.tab[id].isLoading = TRUE], id)

\* mutant: the flag is cleared without telling the renderer
onDidStopLoading_silent(S, id) == [S EXCEPT !.tab[id].isLoading = FALSE]

onDidStopLoading(S, id) ==
    sendTabUpdate([S EXCEPT !.tab[id].isLoading = FALSE], id)

\* mutant: only the blank document itself is skipped on an internal page
onDidNavigate_blankOnly(S, id, url) ==
    IF ~S.tab[id].internal \/ url # U_blank
    THEN addHistoryEntry(sendTabUpdate([S EXCEPT !.tab[id].url = url], id), id, url)
    ELSE S

onDidNavigate(S, id, url) ==
    IF AcceptsNavigation(S, id, url)
    THEN addHistoryEntry(sendTabUpdate([S EXCEPT !.tab[id].url = url], id), id, url)
    ELSE S

onDidNavigateInPage(S, id, url) ==
    IF AcceptsNavigation(S, id, url)
    THEN addHistoryEntry(sendTabUpdate([S EXCEPT !.tab[id].url = url], id), id, url)
    ELSE S

onDidFrameNavigate(S, id, url, isMainFrame) ==
    IF isMainFrame /\ AcceptsNavigation(S, id, url)
    THEN addHistoryEntry(
             sendTabUpdate([S EXCEPT !.tab[id].internal = FALSE, !.tab[id].url = url], id),
             id, url)
    ELSE S

\* mutant: the url is rewritten and announced on every finished load
onDidFinishLoad_always(S, id, currentUrl) ==
    IF currentUrl # <<>> /\ ~(S.tab[id].internal /\ StartsWith(currentUrl, S_about))
    THEN sendTabUpdate([S EXCEPT !.tab[id].url = currentUrl], id)
    ELSE S

\* currentUrl is what view.webContents.getURL() answers
onDidFinishLoad(S, id, currentUrl) ==
    IF /\ currentUrl # <<>>
       /\ currentUrl # S.tab[id].url
       /\ ~(S.tab[id].internal /\ StartsWith(currentUrl, S_about))
    THEN sendTabUpdate([S EXCEPT !.tab[id].url = currentUrl], id)
    ELSE S

onPageTitleUpdated(S, id, title) ==
    IF S.tab[id].internal THEN S
    ELSE updateHistoryEntry(
             sendTabUpdate([S EXCEPT !.tab[id].title = IF title # "" THEN title ELSE "Untitled"],
                           id),
             id)

onPageFaviconUpdated(S, id, favicons) ==
    IF Len(favicons) > 0
    THEN updateHistoryEntry(sendTabUpdate([S EXCEPT !.tab[id].favicon = favicons[1]], id), id)
    ELSE S

\* view.webContents.setWindowOpenHandler: a page of the view opens a window
onViewWindowOpen(S, url) ==
    LET S1 == createTab(S, url, NoOptions)
    IN  switchToTab(S1, S1.tabs[Len(S1.tabs)])

----------------------------------------------------------------------------
(* IPC handlers (setupIPC).  Each yields the new state and `success`.      *)

ipcCreateTab(S, url, options) ==
    LET S1 == createTab(S, url, options)
    IN  [s |-> switchToTab(S1, S1.tabIdCounter), ok |-> TRUE]

ipcCloseTab(S, tabId) == [s |-> closeTab(S, tabId), ok |-> TRUE]

ipcSwitchTab(S, tabId) == [s |-> switchToTab(S, tabId), ok |-> TRUE]

ipcNavigate(S, url) ==
    [s |-> IF S.activeTabId # NULL THEN navigateTab(S, S.activeTabId, url) ELSE S,
     ok |-> TRUE]

\* mutant: the guard asks whether a Tab object exists, not whether the id is registered
ipcUpdateTabState_anyObject(S, tabId, data) ==
    IF tabId \notin DOMAIN S.tab THEN [s |-> S, ok |-> FALSE]
    ELSE [s |-> sendTabUpdate(
                    [S EXCEPT !.tab[tabId].title =
                                  IF data.title # <<>> THEN data.title[1] ELSE @], tabId),
          ok |-> TRUE]

\* data: each field is <<>> (undefined) or <<value>>
ipcUpdateTabState(S, tabId, data) ==
    IF tabId \notin Live(S) THEN [s |-> S, ok |-> FALSE]
    ELSE
      LET S1 == [S EXCEPT
                   !.tab[tabId].url = IF data.url # <<>> THEN data.url[1] ELSE @,
                   !.tab[tabId].title = IF data.title # <<>> THEN data.title[1] ELSE @,
                   !.tab[tabId].favicon = IF data.favicon # <<>> THEN data.favicon[1] ELSE @,
                   !.tab[tabId].isLoading = IF data.isLoading # <<>> THEN data.isLoading[1] ELSE @]
          hasUrl == data.url # <<>> /\ data.url[1] # <<>>
          hasTitle == data.title # <<>> /\ data.title[1] # ""
          hasFavicon == data.favicon # <<>> /\ data.favicon[1] # ""
          S2 == IF hasUrl THEN addHistoryEntry(S1, tabId, data.url[1]) ELSE S1
          S3 == IF hasTitle \/ hasFavicon THEN updateHistoryEntry(S2, tabId) ELSE S2
      IN  [s |-> sendTabUpdate(S3, tabId), ok |-> TRUE]

ipcSetActiveRealm(S, realmId) ==
    LET r == setActiveRealmId(S, realmId)
    IN  [s |-> IF r.ok THEN Send(r.s, [ch |-> "active-realm-changed", realmId |-> realmId])
               ELSE r.s,
         ok |-> r.ok]

\* `win.webContents.send('tab-organization-changed', { tabId, ...org })`
sendTabOrganization(S, tabId) ==
    Send(S, [ch |-> "tab-organization-changed", tabId |-> tabId,
             org |-> getTabOrganization(S, tabId)])

\* what the handlers of the tab-organization commands do with a mutator's result
AfterTabMove(r, tabId) ==
    [s |-> IF r.ok THEN sendTabOrganization(r.s, tabId) ELSE r.s, ok |-> r.ok]

\* tabIds.forEach: one notification per listed tab the store has a placement for
RECURSIVE sendTabOrganizations(_, _)
sendTabOrganizations(S, tabIds) ==
    IF tabIds = <<>> THEN S
    ELSE sendTabOrganizations(
             IF getTabOrganization(S, Head(tabIds)) # <<>>
             THEN sendTabOrganization(S, Head(tabIds)) ELSE S,
             Tail(tabIds))

\* newDocks.forEach(dock => win?.webContents.send('dock-created', dock))
RECURSIVE sendDocksCreated(_, _)
sendDocksCreated(S, dockIds) ==
    IF dockIds = {} THEN S
    ELSE LET d == CHOOSE x \in dockIds : \A y \in dockIds : S.docks[x].order <= S.docks[y].order
         IN  sendDocksCreated(Send(S, [ch |-> "dock-created", dockId |-> d]), dockIds \ {d})

\* ipcMain.handle('create-realm'): the new realm is selected.  A template
\* with docks makes createRealm add a dock to the new realm in the same call.
ipcCreateRealm(S, template) ==
    LET c == createRealmFromParams(S)
        r == [s |-> IF template THEN createDockFromParams(c.s, c.id).s ELSE c.s, id |-> c.id]
    IN  IF WinAlive(r.s)
        THEN LET S1 == Send(r.s, [ch |-> "realm-created", realmId |-> r.id])
                 S2 == IF template THEN sendDocksCreated(S1, DocksOf(S1, r.id)) ELSE S1
                 S3 == setActiveRealmId(S2, r.id).s
             IN  [s |-> Send(S3, [ch |-> "active-realm-changed", realmId |-> r.id]),
                  ok |-> TRUE, id |-> r.id]
        ELSE [s |-> r.s, ok |-> TRUE, id |-> r.id]

\* mutant: the handler answers success whatever the store said
ipcDeleteRealm_alwaysSuccess(S, realmId, keepOrder) ==
    LET r == deleteRealm(S, realmId, keepOrder)
    IN  [s |-> IF r.ok THEN Send(r.s, [ch |-> "realm-deleted", realmId |-> realmId])
               ELSE r.s,
         ok |-> TRUE]

ipcDeleteRealm(S, realmId, keepOrder) ==
    LET r == deleteRealm(S, realmId, keepOrder)
    IN  [s |-> IF r.ok THEN Send(r.s, [ch |-> "realm-deleted", realmId |-> realmId])
               ELSE r.s,
         ok |-> r.ok]

\* ipcMain.handle('create-dock'): the dock, or null
ipcCreateDock(S, realmId) ==
    LET r == createDockFromParams(S, realmId)
    IN  [s |-> IF r.dock # <<>> THEN Send(r.s, [ch |-> "dock-created", dockId |-> r.dock[1]])
               ELSE r.s,
         ok |-> r.dock # <<>>, dock |-> r.dock]

\* mutant: dock-deleted is sent whether or not the store deleted a dock
ipcDeleteDock_alwaysNotifies(S, dockId, keepOrder) ==
    LET r == deleteDock(S, dockId, keepOrder)
    IN  [s |-> Send(r.s, [ch |-> "dock-deleted", dockId |-> dockId]), ok |-> r.ok]

\* mutant: the tabs of the dock are closed along with it
ipcDeleteDock_closesTabs(S, dockId, keepOrder) ==
    LET r == deleteDock(S, dockId, keepOrder)
        held == {t \in Live(S) : t \in DOMAIN S.tabOrg /\ S.tabOrg[t].dockId = dockId}
    IN  [s |-> IF r.ok
               THEN Send(IF held = {} THEN r.s ELSE closeTab(r.s, SetMin(held)),
                         [ch |-> "dock-deleted", dockId |-> dockId])
               ELSE r.s,
         ok |-> r.ok]

ipcDeleteDock(S, dockId, keepOrder) ==
    LET r == deleteDock(S, dockId, keepOrder)
    IN  [s |-> IF r.ok THEN Send(r.s, [ch |-> "dock-deleted", dockId |-> dockId]) ELSE r.s,
         ok |-> r.ok]

ipcReorderDocks(S, realmId, dockIds) ==
    LET r == reorderDocks(S, realmId, dockIds)
    IN  [s |-> IF r.ok
               THEN Send(r.s, [ch |-> "docks-reordered", realmId |-> realmId,
                               dockIds |-> dockIds])
               ELSE r.s,
         ok |-> r.ok]

ipcMoveDockToRealm(S, dockId, newRealmId) ==
    LET r == moveDockToRealm(S, dockId, newRealmId)
    IN  [s |-> IF r.ok
               THEN Send(r.s, [ch |-> "dock-moved", dockId |-> dockId,
                               newRealmId |-> newRealmId])
               ELSE r.s,
         ok |-> r.ok]

ipcMoveTabToDock(S, tabId, dockId) == AfterTabMove(moveTabToDock(S, tabId, dockId), tabId)
ipcMoveTabToLoose(S, tabId, realmId) == AfterTabMove(moveTabToLoose(S, tabId, realmId), tabId)
ipcMoveTabToRealm(S, tabId, realmId) == AfterTabMove(moveTabToRealm(S, tabId, realmId), tabId)
ipcPinTab(S, tabId) == AfterTabMove(pinTab(S, tabId), tabId)
ipcUnpinTab(S, tabId) == AfterTabMove(unpinTab(S, tabId), tabId)

ipcReorderTabsInDock(S, dockId, tabIds) ==
    LET r == reorderTabsInDock(S, dockId, tabIds)
    IN  [s |-> IF r.ok THEN sendTabOrganizations(r.s, tabIds) ELSE r.s, ok |-> r.ok]

ipcReorderLooseTabs(S, realmId, tabIds) ==
    LET r == reorderLooseTabs(S, realmId, tabIds)
    IN  [s |-> IF r.ok THEN sendTabOrganizations(r.s, tabIds) ELSE r.s, ok |-> r.ok]

\* mutant: a loose tab is reported under the active realm
getSidebarState_looseFollowsActive(S) ==
    [activeRealmId |-> S.activeRealmId, realms |-> S.realms, docks |-> S.docks,
     tabs |-> [i \in 1..Len(S.tabs) |->
        LET id == S.tabs[i]
            org == IF id \in DOMAIN S.tabOrg /\ S.tabOrg[id].dockId # NoDock
                   THEN S.tabOrg[id]
                   ELSE [realmId |-> S.activeRealmId, dockId |-> NoDock,
                         order |-> 0, isPinned |-> FALSE]
        IN  [id |-> id, title |-> S.tab[id].title, url |-> S.tab[id].url,
             favicon |-> S.tab[id].favicon, isLoading |-> S.tab[id].isLoading,
             realmId |-> org.realmId, dockId |-> org.dockId,
             order |-> org.order, isPinned |-> org.isPinned]]]

\* mutant: a tab without a placement is reported pinned
getSidebarState_fallbackPinned(S) ==
    [activeRealmId |-> S.activeRealmId, realms |-> S.realms, docks |-> S.docks,
     tabs |-> [i \in 1..Len(S.tabs) |->
        LET id == S.tabs[i]
            org == IF id \in DOMAIN S.tabOrg THEN S.tabOrg[id]
                   ELSE [realmId |-> S.activeRealmId, dockId |-> NoDock,
                         order |-> 0, isPinned |-> TRUE]
        IN  [id |-> id, title |-> S.tab[id].title, url |-> S.tab[id].url,
             favicon |-> S.tab[id].favicon, isLoading |-> S.tab[id].isLoading,
             realmId |-> org.realmId, dockId |-> org.dockId,
             order |-> org.order, isPinned |-> org.isPinned]]]

\* ipcMain.handle('get-sidebar-state'): getFullState() of the store (its
\* realms, docks and active pointer) and every registered tab with its
\* placement, or with the fallback when the store has none for it
getSidebarState(S) ==
    [activeRealmId |-> S.activeRealmId, realms |-> S.realms, docks |-> S.docks,
     tabs |-> [i \in 1..Len(S.tabs) |->
        LET id == S.tabs[i]
            org == IF id \in DOMAIN S.tabOrg THEN S.tabOrg[id]
                   ELSE [realmId |-> S.activeRealmId, dockId |-> NoDock,
                         order |-> 0, isPinned |-> FALSE]
        IN  [id |-> id, title |-> S.tab[id].title, url |-> S.tab[id].url,
             favicon |-> S.tab[id].favicon, isLoading |-> S.tab[id].isLoading,
             realmId |-> org.realmId, dockId |-> org.dockId,
             order |-> org.order, isPinned |-> org.isPinned]]]

\* win.webContents.on('did-finish-load'): first load, or a renderer reload
onWinDidFinishLoad(S) ==
    LET S0 == [S EXCEPT !.win = "ready"]
        S1 == IF Len(S0.tabs) = 0
              THEN LET C == createTab(S0, U_newtab, NoOptions)
                   IN  switchToTab(C, C.tabIdCounter)
              ELSE LET R == sendTabsUpdate(S0)
                   IN  IF R.activeTabId # NULL
                       THEN sendActiveTabUpdate(
                                IF R.activeTabId \in Live(R)
                                THEN sendTabUpdate(R, R.activeTabId) ELSE R)
                       ELSE R
    IN  Send(S1, [ch |-> "ad-block-status"])

----------------------------------------------------------------------------
(* Request interception.  The filter's verdict on a request is the         *)
(* blocker's business: it is an input, "allow", "block" or "redirect".     *)

Includes(s, p) == \E i \in 0..(Len(s) - Len(p)) : SubSeq(s, i + 1, i + Len(p)) = p
EndsWith(s, p) == Len(s) >= Len(p) /\ SubSeq(s, Len(s) - Len(p) + 1, Len(s)) = p

\* `new URL(details.url).hostname` of an http:// URL
hostname(url) ==
    LET rest == Drop(url, Len(S_http))
        ends == {i \in 1..Len(rest) : rest[i] \in {"/", ":", "?", "#"}}
    IN  IF ends = {} THEN rest ELSE SubSeq(rest, 1, SetMin(ends) - 1)

isLocal(url) ==
    \/ Includes(url, S_localhost)
    \/ Includes(url, S_loopback)
    \/ StartsWith(url, <<"f","i","l","e",":">>)
    \/ StartsWith(url, <<"p","o","s","e","i","d","o","n",":">>)

Allow == [action |-> "allow", url |-> <<>>]

\* blocker.onBeforeRequest with the 'request-blocked' and
\* 'request-redirected' listeners of initAdBlocker
blockerOnBeforeRequest(S, url, verdict) ==
    IF verdict = "allow" THEN [s |-> S, response |-> Allow]
    ELSE
      LET S1 == [S EXCEPT !.blockedCount = @ + 1]
      IN  IF verdict = "block"
          THEN [s |-> Send(S1, [ch |-> "ad-blocked", count |-> S1.blockedCount, url |-> url]),
                response |-> [action |-> "cancel", url |-> <<>>]]
          ELSE [s |-> Send(S1, [ch |-> "ad-blocked", count |-> S1.blockedCount, url |-> <<>>]),
                response |-> [action |-> "redirect", url |-> <<"d","a","t","a",":">>]]

\* the listener setupRequestInterceptor installs on the default session
onBeforeRequest(S, url, verdict) ==
    IF S.httpsUpgradeEnabled /\ StartsWith(url, S_http) /\ ~isLocal(url)
    THEN [s |-> S, consulted |-> FALSE,
          response |-> [action |-> "redirect", url |-> S_https \o Drop(url, Len(S_http))]]
    ELSE IF S.adBlockEnabled /\ S.blocker
    THEN [s |-> blockerOnBeforeRequest(S, url, verdict).s, consulted |-> TRUE,
          response |-> blockerOnBeforeRequest(S, url, verdict).response]
    ELSE [s |-> S, consulted |-> FALSE, response |-> Allow]

\* the listener did-attach-webview installs on the webview's session for
\* `http://*/*` requests
webviewOnBeforeRequest(S, url) ==
    LET local == \/ hostname(url) = S_localhost
                 \/ hostname(url) = S_loopback
                 \/ EndsWith(hostname(url), <<".","l","o","c","a","l">>)
    IN  IF ~local /\ S.adBlockEnabled
        THEN LET S1 == [S EXCEPT !.httpsUpgradeCount = @ + 1]
             IN  [s |-> Send(S1, [ch |-> "https-upgraded", count |-> S1.httpsUpgradeCount]),
                  consulted |-> FALSE,
                  response |-> [action |-> "redirect",
                                url |-> S_https \o Drop(url, Len(S_http))]]
        ELSE [s |-> S, consulted |-> FALSE, response |-> Allow]

\* the defaults of the settings store, for the two switches of the gateway
DEFAULT_SETTINGS == [adBlockerEnabled |-> TRUE, httpsUpgradeEnabled |-> TRUE]

\* webRequest.onBeforeRequest keeps one listener per session: installing a
\* listener replaces the one that was there
setupRequestInterceptor(S) == [S EXCEPT !.interceptor.default = "main"]

\* the request of a session goes to the listener installed on that session;
\* the listener of did-attach-webview is registered for http://*/* only
sessionOnBeforeRequest(S, session, url, verdict) ==
    CASE S.interceptor[session] = "main" -> onBeforeRequest(S, url, verdict)
      [] S.interceptor[session] = "webview" /\ StartsWith(url, S_http) ->
            webviewOnBeforeRequest(S, url)
      [] OTHER -> [s |-> S, consulted |-> FALSE, response |-> Allow]

\* win.webContents.on('did-attach-webview'): safeEnableBlocking hooks the
\* blocker's own listener on the webview's session when the session has no
\* blocking context yet, then the handler installs its listener in its place
onDidAttachWebview(S) ==
    LET S1 == IF S.blocker /\ S.adBlockEnabled
              THEN [S EXCEPT !.interceptor.webview = "blocker"]
              ELSE S
    IN  [S1 EXCEPT !.interceptor.webview = "webview"]

\* enabling and disabling the blocker's context on the default session both
\* end with setupRequestInterceptor
toggleAdBlocker(S, enabled) ==
    LET S1 == [S EXCEPT !.adBlockEnabled = enabled]
    IN  IF S1.blocker THEN setupRequestInterceptor(S1) ELSE S1

toggleHttpsUpgrade(S, enabled) ==
    setupRequestInterceptor([S EXCEPT !.httpsUpgradeEnabled = enabled])

\* ipcMain.handle('set-setting') for the two switches of the gateway
ipcSetSetting(S, key, value) ==
    LET S0 == [S EXCEPT !.settings[key] = value]
        S1 == IF key = "adBlockerEnabled" THEN toggleAdBlocker(S0, value)
              ELSE IF key = "httpsUpgradeEnabled" THEN toggleHttpsUpgrade(S0, value)
              ELSE S0
        S2 == Send(S1, [ch |-> "settings-changed", key |-> key, value |-> value])
    IN  IF key = "adBlockerEnabled" THEN toggleAdBlocker(S2, value) ELSE S2

\* ipcMain.handle('toggle-ad-block'): the switch of the gateway is set, the
\* settings are not
ipcToggleAdBlock(S, enabled) == toggleAdBlocker(S, enabled)

\* settingsStore.update: `{ ...this.settings, ...updates }`
settingsUpdate(S, updates) ==
    [S EXCEPT !.settings = [k \in DOMAIN @ |-> IF k \in DOMAIN updates THEN updates[k] ELSE @[k]]]

\* ipcMain.handle('update-settings')
ipcUpdateSettings(S, updates) ==
    LET S1 == Send(settingsUpdate(S, updates), [ch |-> "settings-changed"])
    IN  IF "adBlockerEnabled" \in DOMAIN updates
        THEN toggleAdBlocker(S1, updates.adBlockerEnabled)
        ELSE S1

\* ipcMain.handle('reset-settings')
ipcResetSettings(S) ==
    LET S1 == Send([S EXCEPT !.settings = DEFAULT_SETTINGS], [ch |-> "settings-changed"])
    IN  toggleAdBlocker(S1, S1.settings.adBlockerEnabled)

ipcResetBlockedCount(S) == [S EXCEPT !.blockedCount = 0, !.httpsUpgradeCount = 0]

----------------------------------------------------------------------------
(* Inputs *)

In_site == <<"a",".","c","o">>
U_site == S_https \o In_site

\* an internal-scheme URL that is neither the new-tab nor the settings page
U_history == S_poseidon \o <<"h","i","s","t","o","r","y">>

\* requests: plain HTTP to a site, HTTPS to it, plain HTTP to the loopback
\* host, and plain HTTP to a site with "localhost" in the path
R_http == S_http \o In_site
R_localhost == S_http \o S_localhost
R_path == S_http \o In_site \o <<"/">> \o S_localhost
RequestUrls == {R_http, U_site, R_localhost, R_path}
Verdicts == {"allow", "block", "redirect"}

\* what a user may type in the address bar: a bare domain, localhost with a
\* port, an internal page, two words, and absolute URLs: plain, with a port,
\* with a query and no path, with an IP-address host
In_localhost == S_localhost \o <<":","3">>
In_words == <<"h"," ","w">>
In_port == S_http \o In_site \o <<":","8">>
In_query == S_https \o In_site \o <<"?","q">>
In_ip == S_http \o <<"1",".","2",".","3",".","4">>
NormalizeInputs ==
    {In_site, In_localhost, U_newtab, U_history, In_words,
     S_http \o In_site, U_site, In_port, In_query, In_ip}
Engines == {"google", "duckduckgo", "bing", "brave"}

TabIds(cap) == 1..cap
NavInputs == {In_site, U_newtab}
\* the sessions that emit engine events and the ids update-tab-state names:
\* a listener touches no Tab object but its own
EventSessions == {1}
EventUrls == {U_blank, U_site}
\* with an about: target that is not the blank document
U_srcdoc == S_about \o <<"s","r","c","d","o","c">>
DisplayUrls == EventUrls \cup {U_srcdoc}
EventTitles == {"T", ""}
EventFavicons == {<<>>, <<"f">>}
UpdateData ==
    {[url |-> <<U_site>>, title |-> <<>>, favicon |-> <<>>, isLoading |-> <<>>],
     [url |-> <<U_newtab>>, title |-> <<>>, favicon |-> <<>>, isLoading |-> <<>>],
     [url |-> <<>>, title |-> <<"T">>, favicon |-> <<>>, isLoading |-> <<TRUE>>],
     [url |-> <<>>, title |-> <<>>, favicon |-> <<"f">>, isLoading |-> <<FALSE>>]}
PlacementOptions ==
    {NoOptions,
     [realmId |-> "r1", dockId |-> ""], [realmId |-> "r2", dockId |-> ""],
     [realmId |-> "r1", dockId |-> "d1"], [realmId |-> "", dockId |-> "d1"],
     [realmId |-> "r9", dockId |-> ""], [realmId |-> "r1", dockId |-> "d9"]}

----------------------------------------------------------------------------
(* Initial state: the process has started and createWindow has run; the    *)
(* store was loaded with two realms and a dock in the second.              *)

InitRegistry ==
    /\ tabs = <<>>
    /\ tab = <<>>
    /\ activeTabId = NULL
    /\ tabIdCounter = 0
    /\ destroyCount = <<>>
    /\ win = "loading"
    /\ realms = [r \in {"r1", "r2"} |-> [order |-> IF r = "r1" THEN 0 ELSE 1]]
    /\ docks = [d \in {"d1"} |-> [realmId |-> "r2", order |-> 0]]
    /\ activeRealmId = "r1"
    /\ tabOrg = <<>>
    /\ realmIdCounter = 2
    /\ dockIdCounter = 1
    /\ sent = <<>>
    /\ hist = <<>>
    /\ loads = <<>>
    /\ adBlockEnabled = TRUE
    /\ blockedCount = 0
    /\ httpsUpgradeCount = 0
    /\ lastOp = [op |-> "init", id |-> NULL, ok |-> TRUE, arg |-> <<>>]

\* initAdBlocker: httpsUpgradeEnabled is read from the settings; when the
\* blocker was built the default session gets the interceptor, when building
\* it failed the catch clause is all that runs
InitAdBlocker ==
    /\ httpsUpgradeEnabled = settings.httpsUpgradeEnabled
    /\ interceptor = [default |-> IF blocker THEN "main" ELSE "none", webview |-> "none"]

\* initAdBlocker built the blocker and the settings hold their defaults
Init ==
    /\ InitRegistry
    /\ searchEngine = "google"
    /\ blocker = TRUE
    /\ settings = DEFAULT_SETTINGS
    /\ InitAdBlocker

\* the settings file names any of the search engines getSearchUrl knows
InitNormalize ==
    /\ InitRegistry
    /\ searchEngine \in Engines
    /\ blocker = TRUE
    /\ settings = DEFAULT_SETTINGS
    /\ InitAdBlocker

\* initAdBlocker may have failed to fetch the filter lists (blocker stays
\* null) and httpsUpgradeEnabled is whatever the settings file holds
InitGateway ==
    /\ InitRegistry
    /\ searchEngine = "google"
    /\ blocker \in BOOLEAN
    /\ settings \in {[DEFAULT_SETTINGS EXCEPT !.httpsUpgradeEnabled = b] : b \in BOOLEAN}
    /\ InitAdBlocker

\* any settings file: adBlockEnabled starts as the literal true of its
\* declaration, whatever the file says
InitSettings ==
    /\ InitRegistry
    /\ searchEngine = "google"
    /\ blocker \in BOOLEAN
    /\ settings \in [DOMAIN DEFAULT_SETTINGS -> BOOLEAN]
    /\ InitAdBlocker

\* a step to state S, within the cap on generated ids; order values, which
\* moves can raise without end, stay within the same cap
StepWith(cap, S, opName, id, ok, arg) ==
    /\ S.tabIdCounter <= cap
    /\ \A t \in DOMAIN S.tabOrg : S.tabOrg[t].order <= cap
    /\ \A d \in DOMAIN S.docks : S.docks[d].order <= cap
    /\ Commit(S, [op |-> opName, id |-> id, ok |-> ok, arg |-> arg])

Step(cap, S, opName, id, ok) == StepWith(cap, S, opName, id, ok, <<>>)

\* the renderer exists and can invoke IPC
HasRenderer == win # "none"

----------------------------------------------------------------------------
(* Commands *)

CreateTabCmd(cap, urls, opts) ==
    /\ HasRenderer
    /\ \E url \in urls, o \in opts :
         LET r == ipcCreateTab(Begin, url, o)
         IN  StepWith(cap, r.s, "create-tab", r.s.tabIdCounter, r.ok, o)

CloseTabCmd(cap) ==
    /\ HasRenderer
    /\ \E id \in TabIds(cap) :
         LET r == ipcCloseTab(Begin, id)
         IN  Step(cap, r.s, "close-tab", id, r.ok)

SwitchTabCmd(cap) ==
    /\ HasRenderer
    /\ \E id \in TabIds(cap) :
         LET r == ipcSwitchTab(Begin, id)
         IN  Step(cap, r.s, "switch-tab", id, r.ok)

NavigateCmd(cap, inputs) ==
    /\ HasRenderer
    /\ \E raw \in inputs :
         LET r == ipcNavigate(Begin, raw)
         IN  StepWith(cap, r.s, "navigate", activeTabId, r.ok, raw)

SetActiveRealmCmd(cap) ==
    /\ HasRenderer
    /\ \E realmId \in {"r1", "r2", "r9"} :
         LET r == ipcSetActiveRealm(Begin, realmId)
         IN  Step(cap, r.s, "set-active-realm", NULL, r.ok)

\* the query's answer is kept in lastOp.arg
GetSidebarStateCmd(cap) ==
    /\ HasRenderer
    /\ StepWith(cap, Begin, "get-sidebar-state", NULL, TRUE, getSidebarState(Begin))

UpdateTabStateCmd(cap) ==
    /\ HasRenderer
    /\ \E id \in EventSessions, data \in UpdateData :
         LET r == ipcUpdateTabState(Begin, id, data)
         IN  Step(cap, r.s, "update-tab-state", id, r.ok)

----------------------------------------------------------------------------
(* Realm, dock and tab-organization commands.  lastOp.arg keeps the ids the *)
(* command named and, for a delete, the tabs the container held.            *)

OrgArg(realmId, dockId) == [realmId |-> realmId, dockId |-> dockId]

\* the realm and dock ids a command may name: those the store can have
\* handed out, and one it never did
RealmInputs == Range(RealmIds) \cup {"r9"}
DockInputs == Range(DockIds) \cup {"d9"}
\* the tab ids the commands of the organization specification name: the
\* store treats each tab id on its own
OrgTabIds == {1}
\* the same for a store that creates no realm and no dock
InitialRealmInputs == {"r1", "r2", "r9"}
InitialDockInputs == {"d1", "d9"}

\* the lists a reorder command may carry: tab ids, none of them twice
TabLists(ids) ==
    {l \in UNION {[1..n -> ids] : n \in 1..Cardinality(ids)} :
        \A i, j \in 1..Len(l) : i # j => l[i] # l[j]}

CreateRealmCmd(cap, templates) ==
    /\ HasRenderer
    /\ realmIdCounter < Len(RealmIds)
    /\ \E template \in templates :
         /\ template => dockIdCounter < Len(DockIds)
         /\ LET r == ipcCreateRealm(Begin, template)
            IN  StepWith(cap, r.s, "create-realm", NULL, r.ok, OrgArg(r.id, ""))

\* create-realm is handled while `win` is null: the invoke was on its way
\* when the last window went away
CreateRealmNoWindowCmd(cap, templates) ==
    /\ ~HasRenderer
    /\ realmIdCounter < Len(RealmIds)
    /\ \E template \in templates :
         /\ template => dockIdCounter < Len(DockIds)
         /\ LET r == ipcCreateRealm(Begin, template)
            IN  StepWith(cap, r.s, "create-realm", NULL, r.ok, OrgArg(r.id, ""))

DeleteRealmCmd(cap, realmIds) ==
    /\ HasRenderer
    /\ \E realmId \in realmIds, keepOrder \in BOOLEAN :
         LET r == ipcDeleteRealm(Begin, realmId, keepOrder)
         IN  StepWith(cap, r.s, "delete-realm", NULL, r.ok,
                      [realmId |-> realmId, dockId |-> "",
                       held |-> {t \in DOMAIN tabOrg : EffectiveRealm(Cur, t) = realmId}])

CreateDockCmd(cap, realmIds) ==
    /\ HasRenderer
    /\ dockIdCounter < Len(DockIds)
    /\ \E realmId \in realmIds :
         LET r == ipcCreateDock(Begin, realmId)
         IN  StepWith(cap, r.s, "create-dock", NULL, r.ok,
                      OrgArg(realmId, IF r.dock = <<>> THEN "" ELSE r.dock[1]))

DeleteDockCmd(cap, dockIds) ==
    /\ HasRenderer
    /\ \E dockId \in dockIds, keepOrder \in BOOLEAN :
         LET r == ipcDeleteDock(Begin, dockId, keepOrder)
         IN  StepWith(cap, r.s, "delete-dock", NULL, r.ok,
                      [realmId |-> "", dockId |-> dockId,
                       held |-> {t \in DOMAIN tabOrg : tabOrg[t].dockId = dockId}])

ReorderDocksCmd(cap, realmIds, dockIds) ==
    /\ HasRenderer
    /\ \E realmId \in realmIds, dockList \in {<<d>> : d \in dockIds} :
         LET r == ipcReorderDocks(Begin, realmId, dockList)
         IN  StepWith(cap, r.s, "reorder-docks", NULL, r.ok, OrgArg(realmId, ""))

MoveDockToRealmCmd(cap, realmIds, dockIds) ==
    /\ HasRenderer
    /\ \E dockId \in dockIds, realmId \in realmIds :
         LET r == ipcMoveDockToRealm(Begin, dockId, realmId)
         IN  StepWith(cap, r.s, "move-dock-to-realm", NULL, r.ok, OrgArg(realmId, dockId))

MoveTabToDockCmd(cap, ids, dockIds) ==
    /\ HasRenderer
    /\ \E tabId \in ids, dockId \in dockIds :
         LET r == ipcMoveTabToDock(Begin, tabId, dockId)
         IN  StepWith(cap, r.s, "move-tab-to-dock", tabId, r.ok, OrgArg("", dockId))

\* the realmId is always given: what the store does without one is not known
MoveTabToLooseCmd(cap, ids, realmIds) ==
    /\ HasRenderer
    /\ \E tabId \in ids, realmId \in realmIds :
         LET r == ipcMoveTabToLoose(Begin, tabId, realmId)
         IN  StepWith(cap, r.s, "move-tab-to-loose", tabId, r.ok, OrgArg(realmId, ""))

MoveTabToRealmCmd(cap, ids, realmIds) ==
    /\ HasRenderer
    /\ \E tabId \in ids, realmId \in realmIds :
         LET r == ipcMoveTabToRealm(Begin, tabId, realmId)
         IN  StepWith(cap, r.s, "move-tab-to-realm", tabId, r.ok, OrgArg(realmId, ""))

PinTabCmd(cap, ids) ==
    /\ HasRenderer
    /\ \E tabId \in ids :
         LET r == ipcPinTab(Begin, tabId)
         IN  Step(cap, r.s, "pin-tab", tabId, r.ok)

UnpinTabCmd(cap, ids) ==
    /\ HasRenderer
    /\ \E tabId \in ids :
         LET r == ipcUnpinTab(Begin, tabId)
         IN  Step(cap, r.s, "unpin-tab", tabId, r.ok)

ReorderTabsInDockCmd(cap, ids, dockIds) ==
    /\ HasRenderer
    /\ \E dockId \in dockIds, tabIds \in TabLists(ids) :
         LET r == ipcReorderTabsInDock(Begin, dockId, tabIds)
         IN  StepWith(cap, r.s, "reorder-tabs-in-dock", NULL, r.ok,
                      OrgArg("", dockId))

ReorderLooseTabsCmd(cap, ids, realmIds) ==
    /\ HasRenderer
    /\ \E realmId \in realmIds, tabIds \in TabLists(ids) :
         LET r == ipcReorderLooseTabs(Begin, realmId, tabIds)
         IN  StepWith(cap, r.s, "reorder-loose-tabs", NULL, r.ok,
                      OrgArg(realmId, ""))

----------------------------------------------------------------------------
(* Window lifecycle *)

WinDidFinishLoad(cap) ==
    /\ HasRenderer
    /\ Step(cap, onWinDidFinishLoad(Begin), "win-did-finish-load", NULL, TRUE)

WindowAllClosed(cap) ==
    /\ win # "none"
    /\ Step(cap, windowAllClosed(Begin), "window-all-closed", NULL, TRUE)

\* app.on('activate') with no window left: createWindow
Activate(cap) ==
    /\ win = "none"
    /\ Step(cap, [Begin EXCEPT !.win = "loading"], "activate", NULL, TRUE)

\* a page shown in a <webview> opens a window and the popup is let through:
\* createTab(url), without a switch.  A <webview> exists only for a tab.
WebviewWindowOpen(cap) ==
    /\ HasRenderer
    /\ Len(tabs) > 0
    /\ \E url \in {U_site} :
         Step(cap, createTab(Begin, url, NoOptions), "webview-window-open", NULL, TRUE)

----------------------------------------------------------------------------
(* Engine events.  An event of a session can be delivered after its tab    *)
(* was closed; getURL and window.open need a session that still exists.    *)
(* lastOp.arg keeps the event's target; for did-frame-navigate lastOp.ok   *)
(* keeps isMainFrame.                                                      *)

Sessions == (DOMAIN tab) \cap EventSessions

DidStartLoading(cap) ==
    \E id \in Sessions : Step(cap, onDidStartLoading(Begin, id), "did-start-loading", id, TRUE)

DidStopLoading(cap) ==
    \E id \in Sessions : Step(cap, onDidStopLoading(Begin, id), "did-stop-loading", id, TRUE)

DidNavigate(cap, urls) ==
    \E id \in Sessions, url \in urls :
        StepWith(cap, onDidNavigate(Begin, id, url), "did-navigate", id, TRUE, url)

DidNavigateInPage(cap, urls) ==
    \E id \in Sessions, url \in urls :
        StepWith(cap, onDidNavigateInPage(Begin, id, url), "did-navigate-in-page", id, TRUE, url)

DidFrameNavigate(cap, urls) ==
    \E id \in Sessions, url \in urls, isMainFrame \in BOOLEAN :
        StepWith(cap, onDidFrameNavigate(Begin, id, url, isMainFrame), "did-frame-navigate",
                 id, isMainFrame, url)

DidFinishLoad(cap, urls) ==
    \E id \in Range(tabs) \cap Sessions, currentUrl \in urls \cup {<<>>} :
        StepWith(cap, onDidFinishLoad(Begin, id, currentUrl), "did-finish-load", id, TRUE,
                 currentUrl)

PageTitleUpdated(cap) ==
    \E id \in Sessions, title \in EventTitles :
        Step(cap, onPageTitleUpdated(Begin, id, title), "page-title-updated", id, TRUE)

PageFaviconUpdated(cap) ==
    \E id \in Sessions, favicons \in EventFavicons :
        Step(cap, onPageFaviconUpdated(Begin, id, favicons), "page-favicon-updated", id, TRUE)

ViewWindowOpen(cap) ==
    \E id \in Range(tabs), url \in {U_site} :
        Step(cap, onViewWindowOpen(Begin, url), "view-window-open", id, TRUE)

----------------------------------------------------------------------------
(* Requests of the page sessions and the gateway's switches.  lastOp.arg   *)
(* keeps the request, the session it came from and the response given.     *)

RequestArg(session, url, verdict, r) ==
    [session |-> session, url |-> url, verdict |-> verdict,
     response |-> r.response, consulted |-> r.consulted]

\* a view's session (the default session) asks before a request
BeforeRequest(cap) ==
    /\ Len(tabs) > 0
    /\ blockedCount < MaxBlockedCount
    /\ \E url \in RequestUrls, verdict \in Verdicts :
         LET r == sessionOnBeforeRequest(Begin, "default", url, verdict)
         IN  StepWith(cap, r.s, "before-request", NULL, TRUE,
                      RequestArg("default", url, verdict, r))

\* the renderer attached a <webview>
WebviewAttach(cap) ==
    /\ HasRenderer
    /\ Step(cap, onDidAttachWebview(Begin), "did-attach-webview", NULL, TRUE)

\* the session of an attached <webview> asks before a request
WebviewBeforeRequest(cap) ==
    /\ HasRenderer
    /\ interceptor.webview # "none"
    /\ httpsUpgradeCount < MaxBlockedCount
    /\ \E url \in RequestUrls, verdict \in Verdicts :
         LET r == sessionOnBeforeRequest(Begin, "webview", url, verdict)
         IN  StepWith(cap, r.s, "before-request", NULL, TRUE,
                      RequestArg("webview", url, verdict, r))

SetSettingCmd(cap) ==
    /\ HasRenderer
    /\ \E key \in {"adBlockerEnabled", "httpsUpgradeEnabled"}, value \in BOOLEAN :
         StepWith(cap, ipcSetSetting(Begin, key, value), "set-setting", NULL, TRUE,
                  [key |-> key, value |-> value])

ToggleAdBlockCmd(cap) ==
    /\ HasRenderer
    /\ \E enabled \in BOOLEAN :
         StepWith(cap, ipcToggleAdBlock(Begin, enabled), "toggle-ad-block", NULL, TRUE,
                  [key |-> "adBlockerEnabled", value |-> enabled])

UpdateSettingsCmd(cap) ==
    /\ HasRenderer
    /\ \E keys \in (SUBSET DOMAIN DEFAULT_SETTINGS) \ {{}} :
         \E updates \in [keys -> BOOLEAN] :
            StepWith(cap, ipcUpdateSettings(Begin, updates), "update-settings", NULL, TRUE,
                     updates)

ResetSettingsCmd(cap) ==
    /\ HasRenderer
    /\ Step(cap, ipcResetSettings(Begin), "reset-settings", NULL, TRUE)

ResetBlockedCountCmd(cap) ==
    /\ HasRenderer
    /\ Step(cap, ipcResetBlockedCount(Begin), "reset-blocked-count", NULL, TRUE)

----------------------------------------------------------------------------
(* Specifications *)

\* the tab lifecycle: commands, popups and the window
Next ==
    \/ CreateTabCmd(MaxTabId, {<<>>}, {NoOptions})
    \/ CloseTabCmd(MaxTabId)
    \/ SwitchTabCmd(MaxTabId)
    \/ NavigateCmd(MaxTabId, NavInputs)
    \/ WinDidFinishLoad(MaxTabId)
    \/ WindowAllClosed(MaxTabId)
    \/ Activate(MaxTabId)
    \/ WebviewWindowOpen(MaxTabId)
    \/ ViewWindowOpen(MaxTabId)

Spec == Init /\ [][Next]_vars

\* creation with placement hints
NextPlace ==
    \/ CreateTabCmd(MaxPlTabId, {<<>>, In_site}, PlacementOptions)
    \/ CloseTabCmd(MaxPlTabId)
    \/ SetActiveRealmCmd(MaxPlTabId)
    \/ GetSidebarStateCmd(MaxPlTabId)
    \/ WinDidFinishLoad(MaxPlTabId)
    \/ WindowAllClosed(MaxPlTabId)
    \/ Activate(MaxPlTabId)

SpecPlace == Init /\ [][NextPlace]_vars

\* engine events and display-state updates
NextEvents ==
    \/ CreateTabCmd(MaxEvTabId, {<<>>, In_site}, {NoOptions})
    \/ CloseTabCmd(MaxEvTabId)
    \/ UpdateTabStateCmd(MaxEvTabId)
    \/ WinDidFinishLoad(MaxEvTabId)
    \/ DidStartLoading(MaxEvTabId)
    \/ DidStopLoading(MaxEvTabId)
    \/ DidNavigate(MaxEvTabId, EventUrls)
    \/ DidNavigateInPage(MaxEvTabId, EventUrls)
    \/ DidFrameNavigate(MaxEvTabId, EventUrls)
    \/ DidFinishLoad(MaxEvTabId, EventUrls)
    \/ PageTitleUpdated(MaxEvTabId)
    \/ PageFaviconUpdated(MaxEvTabId)

SpecEvents == Init /\ [][NextEvents]_vars

\* the display state of one tab under engine events, updates and navigation
NextDisplay ==
    \/ CreateTabCmd(MaxDispTabId, {<<>>, U_settings, In_site}, {NoOptions})
    \/ UpdateTabStateCmd(MaxDispTabId)
    \/ NavigateCmd(MaxDispTabId, NavInputs)
    \/ DidStartLoading(MaxDispTabId)
    \/ DidStopLoading(MaxDispTabId)
    \/ DidNavigate(MaxDispTabId, DisplayUrls)
    \/ DidNavigateInPage(MaxDispTabId, DisplayUrls)
    \/ DidFrameNavigate(MaxDispTabId, DisplayUrls)
    \/ DidFinishLoad(MaxDispTabId, DisplayUrls)
    \/ PageTitleUpdated(MaxDispTabId)
    \/ PageFaviconUpdated(MaxDispTabId)

SpecDisplay == Init /\ [][NextDisplay]_vars

\* tabs created and navigated with internal-scheme and web URLs
NextInternal ==
    \/ CreateTabCmd(MaxUrlTabId, {<<>>, U_settings, U_history, In_site}, {NoOptions})
    \/ CloseTabCmd(MaxUrlTabId)
    \/ NavigateCmd(MaxUrlTabId, NavInputs)
    \/ WinDidFinishLoad(MaxUrlTabId)

SpecInternal == Init /\ [][NextInternal]_vars

\* address-bar inputs under each search engine
NextNormalize ==
    \/ CreateTabCmd(MaxNormTabId, {<<>>}, {NoOptions})
    \/ SwitchTabCmd(MaxNormTabId)
    \/ NavigateCmd(MaxNormTabId, NormalizeInputs)

SpecNormalize == InitNormalize /\ [][NextNormalize]_vars

\* the request gateway: requests of both kinds of session, the switches, reset
NextGateway ==
    \/ CreateTabCmd(MaxGwTabId, {<<>>}, {NoOptions})
    \/ BeforeRequest(MaxGwTabId)
    \/ WebviewAttach(MaxGwTabId)
    \/ WebviewBeforeRequest(MaxGwTabId)
    \/ SetSettingCmd(MaxGwTabId)
    \/ ResetBlockedCountCmd(MaxGwTabId)

SpecGateway == InitGateway /\ [][NextGateway]_vars

\* the commands that change the switches of the gateway, from any settings file
NextSettings ==
    \/ CreateTabCmd(MaxGwTabId, {<<>>}, {NoOptions})
    \/ BeforeRequest(MaxGwTabId)
    \/ SetSettingCmd(MaxGwTabId)
    \/ ToggleAdBlockCmd(MaxGwTabId)
    \/ UpdateSettingsCmd(MaxGwTabId)
    \/ ResetSettingsCmd(MaxGwTabId)

SpecSettings == InitSettings /\ [][NextSettings]_vars

\* every realm, dock and tab-organization command on the initial realms and dock
NextOrg ==
    \/ CreateTabCmd(MaxOrgTabId, {<<>>}, {NoOptions})
    \/ WinDidFinishLoad(MaxOrgTabId)
    \/ SetActiveRealmCmd(MaxOrgTabId)
    \/ DeleteRealmCmd(MaxOrgTabId, InitialRealmInputs)
    \/ DeleteDockCmd(MaxOrgTabId, InitialDockInputs)
    \/ ReorderDocksCmd(MaxOrgTabId, InitialRealmInputs, InitialDockInputs)
    \/ MoveDockToRealmCmd(MaxOrgTabId, InitialRealmInputs, InitialDockInputs)
    \/ MoveTabToDockCmd(MaxOrgTabId, OrgTabIds, InitialDockInputs)
    \/ MoveTabToLooseCmd(MaxOrgTabId, OrgTabIds, InitialRealmInputs)
    \/ MoveTabToRealmCmd(MaxOrgTabId, OrgTabIds, InitialRealmInputs)
    \/ PinTabCmd(MaxOrgTabId, OrgTabIds)
    \/ UnpinTabCmd(MaxOrgTabId, OrgTabIds)
    \/ ReorderTabsInDockCmd(MaxOrgTabId, OrgTabIds, InitialDockInputs)
    \/ ReorderLooseTabsCmd(MaxOrgTabId, OrgTabIds, InitialRealmInputs)

SpecOrg == Init /\ [][NextOrg]_vars

\* realms created, selected and deleted, and docks created in them
NextRealm ==
    \/ CreateTabCmd(MaxRealmTabId, {<<>>}, {NoOptions})
    \/ WinDidFinishLoad(MaxRealmTabId)
    \/ SetActiveRealmCmd(MaxRealmTabId)
    \/ GetSidebarStateCmd(MaxRealmTabId)
    \/ CreateRealmCmd(MaxRealmTabId, {FALSE})
    \/ DeleteRealmCmd(MaxRealmTabId, RealmInputs)
    \/ CreateDockCmd(MaxRealmTabId, RealmInputs)

SpecRealm == Init /\ [][NextRealm]_vars

\* realms created from the UI, with and without a template, across the
\* closing and reopening of the window
NextRealmWindow ==
    \/ CreateTabCmd(MaxRealmTabId, {<<>>}, {NoOptions})
    \/ WinDidFinishLoad(MaxRealmTabId)
    \/ WindowAllClosed(MaxRealmTabId)
    \/ Activate(MaxRealmTabId)
    \/ SetActiveRealmCmd(MaxRealmTabId)
    \/ CreateRealmCmd(MaxRealmTabId, BOOLEAN)
    \/ CreateRealmNoWindowCmd(MaxRealmTabId, BOOLEAN)

SpecRealmWindow == Init /\ [][NextRealmWindow]_vars

\* the initial dock moved and deleted under the tabs placed in it
NextDock ==
    \/ CreateTabCmd(MaxDockTabId, {<<>>}, {NoOptions, [realmId |-> "", dockId |-> "d1"]})
    \/ WinDidFinishLoad(MaxDockTabId)
    \/ DeleteDockCmd(MaxDockTabId, InitialDockInputs)
    \/ MoveDockToRealmCmd(MaxDockTabId, InitialRealmInputs, InitialDockInputs)
    \/ MoveTabToDockCmd(MaxDockTabId, TabIds(MaxDockTabId), InitialDockInputs)
    \/ DeleteRealmCmd(MaxDockTabId, InitialRealmInputs)

SpecDock == Init /\ [][NextDock]_vars

\* the order of tabs inside the initial containers
NextOrder ==
    \/ CreateTabCmd(MaxOrderTabId, {<<>>}, {NoOptions, [realmId |-> "", dockId |-> "d1"]})
    \/ CloseTabCmd(MaxOrderTabId)
    \/ WinDidFinishLoad(MaxOrderTabId)
    \/ MoveTabToDockCmd(MaxOrderTabId, TabIds(MaxOrderTabId), {"d1"})
    \/ MoveTabToLooseCmd(MaxOrderTabId, TabIds(MaxOrderTabId), {"r1", "r2"})
    \/ MoveTabToRealmCmd(MaxOrderTabId, TabIds(MaxOrderTabId), {"r1"})
    \/ PinTabCmd(MaxOrderTabId, TabIds(MaxOrderTabId))
    \/ ReorderTabsInDockCmd(MaxOrderTabId, TabIds(MaxOrderTabId), {"d1"})
    \/ ReorderLooseTabsCmd(MaxOrderTabId, TabIds(MaxOrderTabId), {"r1"})

SpecOrder == Init /\ [][NextOrder]_vars

----------------------------------------------------------------------------
(* Properties *)

TabCommands == {"create-tab", "close-tab", "switch-tab", "navigate"}
HasSent(channel) == \E i \in 1..Len(sent) : sent[i].ch = channel

\* C1: a create, close, switch or navigate command that starts with at least
\* one tab in the registry ends with at least one; closing the only tab
\* leaves exactly one tab, which is new, shows the default page and is active.
C1_RegistryKeepsATab ==
    [][(lastOp'.op \in TabCommands /\ Len(tabs) >= 1) =>
          /\ Len(tabs') >= 1
          /\ (lastOp'.op = "close-tab" /\ tabs = <<lastOp'.id>>) =>
                /\ tabIdCounter' = tabIdCounter + 1
                /\ tabs' = <<tabIdCounter'>>
                /\ activeTabId' = tabIdCounter'
                /\ tab'[tabIdCounter'].url = U_newtab]_vars

\* the only tab was closed and its replacement is in place
C1_Witness ==
    /\ lastOp.op = "close-tab"
    /\ HasSent("tab-organization-changed")
    /\ tabs = <<tabIdCounter>>
    /\ activeTabId = tabIdCounter
    /\ destroyCount[lastOp.id] = 1

\* the part of the state a caller can observe: registry, pointer, placements
Observable(S) == <<S.tabs, S.tab, S.activeTabId, S.tabIdCounter, S.destroyCount, S.tabOrg>>
Quiet(S) == S.sent = <<>> /\ S.hist = <<>> /\ S.loads = <<>>

\* C2: from every reachable state and for every id, a second closeTab(id)
\* right after the first changes nothing and sends nothing, and so does
\* closeTab(id) for an id that is not registered.
C2_CloseTabIdempotent ==
    \A id \in 1..(tabIdCounter + 1) :
        LET once == closeTab(Begin, id)
            again == closeTab([once EXCEPT !.sent = <<>>, !.hist = <<>>, !.loads = <<>>], id)
        IN  /\ Observable(again) = Observable(once)
            /\ Quiet(again)
            /\ id \notin Live(Cur) => (Observable(once) = Observable(Cur) /\ Quiet(once))

\* close-tab was invoked for a tab that had been closed before
C2_Witness ==
    /\ lastOp.op = "close-tab"
    /\ lastOp.id \in DOMAIN destroyCount
    /\ destroyCount[lastOp.id] = 1
    /\ sent = <<>>
    /\ Len(tabs) >= 1

\* C3: a view is destroyed at most once, a registered tab's view is not
\* destroyed, and the view of every tab that left the registry (closeTab or
\* window teardown) was destroyed exactly once.
C3_DestroyedExactlyOnce ==
    \A id \in DOMAIN destroyCount :
        /\ destroyCount[id] <= 1
        /\ id \in Range(tabs) => destroyCount[id] = 0
        /\ id \notin Range(tabs) => destroyCount[id] = 1

\* the window went away after one tab had been closed and with others open
C3_Witness ==
    /\ lastOp.op = "window-all-closed"
    /\ Cardinality({id \in DOMAIN destroyCount : destroyCount[id] = 1}) >= 3

\* C4: closeTab(id) on a registered tab ends with neither a placement nor a
\* registry entry for id.
C4_PlacementAndTabRemovedTogether ==
    [][(lastOp'.op = "close-tab" /\ lastOp'.id \in Range(tabs)) =>
          /\ lastOp'.id \notin Range(tabs')
          /\ lastOp'.id \notin DOMAIN tabOrg']_vars

\* a tab that had a placement was closed
C4_Witness ==
    /\ lastOp.op = "close-tab"
    /\ HasSent("tabs-updated")
    /\ lastOp.id \notin Range(tabs)
    /\ lastOp.id \notin DOMAIN tabOrg
    /\ Len(tabs) >= 2

EngineEvents ==
    {"did-start-loading", "did-stop-loading", "did-navigate", "did-navigate-in-page",
     "did-frame-navigate", "did-finish-load", "page-title-updated", "page-favicon-updated"}

\* the registered tabs with their display state
Registered(ts, objs) == [id \in Range(ts) |-> objs[id]]

\* C5: an engine event of a session whose tab is no longer registered changes
\* no registry state, makes no history call and sends no tab-updated for it.
C5_ClosedTabIgnoresEvents ==
    [][(lastOp'.op \in EngineEvents /\ lastOp'.id \notin Range(tabs)) =>
          /\ tabs' = tabs
          /\ activeTabId' = activeTabId
          /\ Registered(tabs', tab') = Registered(tabs, tab)
          /\ hist' = <<>>
          /\ ~\E i \in 1..Len(sent') :
                sent'[i].ch = "tab-updated" /\ sent'[i].tab.id = lastOp'.id]_vars

\* C6: update-tab-state for an id that is not registered returns
\* {success: false} and changes, records and sends nothing.
C6_UpdateUnknownTabIsNoOp ==
    [][(lastOp'.op = "update-tab-state" /\ lastOp'.id \notin Range(tabs)) =>
          /\ lastOp'.ok = FALSE
          /\ UNCHANGED <<tabs, tab, activeTabId, tabIdCounter, destroyCount, tabOrg>>
          /\ sent' = <<>>
          /\ hist' = <<>>]_vars

\* update-tab-state named a tab that had been closed
C6_Witness ==
    /\ lastOp.op = "update-tab-state"
    /\ lastOp.ok = FALSE
    /\ lastOp.id \in DOMAIN destroyCount
    /\ destroyCount[lastOp.id] = 1

\* C7: switch-tab with an id that is not registered returns a failed result,
\* leaves the active pointer alone and sends nothing.
C7_SwitchUnknownTabFails ==
    [][(lastOp'.op = "switch-tab" /\ lastOp'.id \notin Range(tabs)) =>
          /\ lastOp'.ok = FALSE
          /\ activeTabId' = activeTabId
          /\ sent' = <<>>]_vars

\* C8: switch-tab with a registered id points activeTabId at it and first
\* sends active-tab-changed with that tab's id, title, url, favicon, loading
\* state and its own view's back/forward answers; no tab is changed.
C8_SwitchActivatesAndNotifies ==
    [][(lastOp'.op = "switch-tab" /\ lastOp'.id \in Range(tabs)) =>
          /\ activeTabId' = lastOp'.id
          /\ Len(sent') >= 1
          /\ sent'[1] = [ch |-> "active-tab-changed",
                         tab |-> <<[id |-> lastOp'.id,
                                    title |-> tab[lastOp'.id].title,
                                    url |-> tab[lastOp'.id].url,
                                    favicon |-> tab[lastOp'.id].favicon,
                                    isLoading |-> tab[lastOp'.id].isLoading,
                                    canGoBack |-> ViewCanGoBack(lastOp'.id),
                                    canGoForward |-> ViewCanGoForward(lastOp'.id)]>>]
          /\ tab' = tab
          /\ tabs' = tabs]_vars

\* the switch went to a tab that shows another page than some other tab
C8_Witness ==
    /\ lastOp.op = "switch-tab"
    /\ lastOp.id \in Range(tabs)
    /\ activeTabId = lastOp.id
    /\ HasSent("active-tab-changed")
    /\ \E other \in Range(tabs) : tab[other].url # tab[lastOp.id].url

\* C9: closing the active tab while others remain activates the remaining
\* tab that was created last, that is, the one with the greatest id.
C9_ActivationFallsToNewest ==
    [][(/\ lastOp'.op = "close-tab"
        /\ lastOp'.id \in Range(tabs)
        /\ lastOp'.id = activeTabId
        /\ Len(tabs) >= 2) =>
          activeTabId' = SetMax(Range(tabs) \ {lastOp'.id})]_vars

\* the active tab was closed while two others remained, and the newest of
\* the two was activated
C9_Witness ==
    /\ lastOp.op = "close-tab"
    /\ lastOp.id \notin Range(tabs)
    /\ HasSent("active-tab-changed")
    /\ Len(tabs) >= 2
    /\ activeTabId = SetMax(Range(tabs))

HintedDock(o) == o.dockId # ""
HintedRealm(o) == o.dockId = "" /\ o.realmId # ""
NoHint(o) == o.dockId = "" /\ o.realmId = ""

\* C10 as stated: when create-tab returns the new tab is registered and holds
\* the requested placement, whatever dock or realm id the hint names.
C10_CreatedTabHoldsRequestedPlacement ==
    lastOp.op = "create-tab" =>
        /\ lastOp.id \in Range(tabs)
        /\ lastOp.id \in DOMAIN tabOrg
        /\ HintedDock(lastOp.arg) => tabOrg[lastOp.id].dockId = lastOp.arg.dockId
        /\ HintedRealm(lastOp.arg) =>
              /\ tabOrg[lastOp.id].dockId = NoDock
              /\ tabOrg[lastOp.id].realmId = lastOp.arg.realmId
        /\ NoHint(lastOp.arg) =>
              /\ tabOrg[lastOp.id].dockId = NoDock
              /\ tabOrg[lastOp.id].realmId = activeRealmId

\* C10 amended: the requested placement is held when the hint names an
\* existing dock (dockId first) or, without a dockId, an existing realm, or
\* when there is no hint; a hint that names an unknown dock or realm leaves
\* the registered tab without a placement.
C10_CreatedTabPlacedWhenHintIsValid ==
    lastOp.op = "create-tab" =>
        /\ lastOp.id \in Range(tabs)
        /\ HintedDock(lastOp.arg) =>
              IF lastOp.arg.dockId \in DOMAIN docks
              THEN /\ lastOp.id \in DOMAIN tabOrg
                   /\ tabOrg[lastOp.id].dockId = lastOp.arg.dockId
                   /\ tabOrg[lastOp.id].realmId = docks[lastOp.arg.dockId].realmId
              ELSE lastOp.id \notin DOMAIN tabOrg
        /\ HintedRealm(lastOp.arg) =>
              IF lastOp.arg.realmId \in DOMAIN realms
              THEN /\ lastOp.id \in DOMAIN tabOrg
                   /\ tabOrg[lastOp.id].dockId = NoDock
                   /\ tabOrg[lastOp.id].realmId = lastOp.arg.realmId
              ELSE lastOp.id \notin DOMAIN tabOrg
        /\ NoHint(lastOp.arg) =>
              /\ lastOp.id \in DOMAIN tabOrg
              /\ tabOrg[lastOp.id].dockId = NoDock
              /\ tabOrg[lastOp.id].realmId = activeRealmId

\* a tab was created with both a dockId and the id of another realm
C10_Witness ==
    /\ lastOp.op = "create-tab"
    /\ lastOp.arg.dockId = "d1"
    /\ lastOp.arg.realmId = "r1"
    /\ lastOp.id \in Range(tabs)
    /\ tabOrg[lastOp.id].dockId = "d1"

\* C11: a tab that enters the registry carries an id that no tab created
\* earlier in the run, closed or not, ever carried, and no id is registered twice.
C11_TabIdsNeverReused ==
    [][/\ \A i \in 1..Len(tabs') : tabs'[i] \in Range(tabs) \/ tabs'[i] \notin DOMAIN tab
       /\ Cardinality(Range(tabs')) = Len(tabs')]_vars

\* a tab was created after an older one had been closed, next to a survivor
C11_Witness ==
    /\ lastOp.op = "create-tab"
    /\ lastOp.id \in Range(tabs)
    /\ Len(tabs) >= 2
    /\ \E old \in DOMAIN destroyCount : old < lastOp.id /\ destroyCount[old] = 1

\* the realm get-sidebar-state reports for the registered tab id in state S
ReportedRealm(S, id) ==
    LET q == getSidebarState(S).tabs
    IN  q[CHOOSE i \in 1..Len(q) : q[i].id = id].realmId

\* C12 as stated: set-active-realm changes the realm that get-sidebar-state
\* reports for no registered tab.
C12_ReportedRealmIgnoresActiveRealm ==
    [][lastOp'.op = "set-active-realm" =>
          \A id \in Range(tabs) : ReportedRealm(Cur', id) = ReportedRealm(Cur, id)]_vars

\* C12 amended: set-active-realm changes the reported realm of no registered
\* tab that has a placement (every tab created without a hint has one); a
\* registered tab without a placement is reported under the new active realm.
C12_PlacedTabsIgnoreActiveRealm ==
    [][lastOp'.op = "set-active-realm" =>
          \A id \in Range(tabs) :
              IF id \in DOMAIN tabOrg
              THEN /\ ReportedRealm(Cur', id) = ReportedRealm(Cur, id)
                   /\ ReportedRealm(Cur', id) = tabOrg[id].realmId
              ELSE ReportedRealm(Cur', id) = activeRealmId']_vars

\* the active realm was switched away from the realm of a loose tab
C12_Witness ==
    /\ lastOp.op = "set-active-realm"
    /\ lastOp.ok
    /\ \E id \in Range(tabs) :
          /\ id \in DOMAIN tabOrg
          /\ tabOrg[id].dockId = NoDock
          /\ tabOrg[id].realmId # activeRealmId

\* C13: get-sidebar-state reports a registered tab that has no placement
\* under the active realm, loose and unpinned, and changes nothing in the store.
C13_FallbackPlacementIsNotPersisted ==
    [][lastOp'.op = "get-sidebar-state" =>
          /\ UNCHANGED <<tabOrg, realms, docks, activeRealmId, tabs, tab>>
          /\ Len(lastOp'.arg.tabs) = Len(tabs)
          /\ \A i \in 1..Len(tabs) :
                /\ lastOp'.arg.tabs[i].id = tabs[i]
                /\ tabs[i] \notin DOMAIN tabOrg =>
                      /\ lastOp'.arg.tabs[i].realmId = activeRealmId
                      /\ lastOp'.arg.tabs[i].dockId = NoDock
                      /\ lastOp'.arg.tabs[i].isPinned = FALSE]_vars

\* the query answered for a tab without a placement while the second realm
\* was active
C13_Witness ==
    /\ lastOp.op = "get-sidebar-state"
    /\ activeRealmId = "r2"
    /\ \E i \in 1..Len(tabs) :
          /\ tabs[i] \notin DOMAIN tabOrg
          /\ lastOp.arg.tabs[i].realmId = "r2"

\* C14: the active-realm pointer, and the activeRealmId that
\* get-sidebar-state answers, name an existing realm in every reachable state.
C14_ActiveRealmExists ==
    /\ activeRealmId \in DOMAIN realms
    /\ getSidebarState(Cur).activeRealmId \in DOMAIN getSidebarState(Cur).realms

\* C15: at least one realm exists after every step, and delete-realm of the
\* only realm returns {success: false}, changes nothing in the store and
\* sends nothing.
C15_LastRealmCannotBeDeleted ==
    [][/\ Cardinality(DOMAIN realms') >= 1
       /\ (/\ lastOp'.op = "delete-realm"
           /\ DOMAIN realms = {lastOp'.arg.realmId}) =>
             /\ lastOp'.ok = FALSE
             /\ UNCHANGED <<realms, docks, tabOrg, activeRealmId>>
             /\ sent' = <<>>]_vars

\* the only realm left, one other than the first, was named by delete-realm
\* and is still there
C15_Witness ==
    /\ lastOp.op = "delete-realm"
    /\ lastOp.ok = FALSE
    /\ DOMAIN realms = {lastOp.arg.realmId}
    /\ lastOp.arg.realmId # "r1"

OrgCommands ==
    {"set-active-realm", "delete-realm", "delete-dock", "reorder-docks",
     "move-dock-to-realm", "move-tab-to-dock", "move-tab-to-loose", "move-tab-to-realm",
     "pin-tab", "unpin-tab", "reorder-tabs-in-dock", "reorder-loose-tabs"}

OrgNotifications ==
    {"active-realm-changed", "realm-deleted", "dock-deleted", "docks-reordered",
     "dock-moved", "tab-organization-changed"}

C17_PlacementsAndDocksReferToExisting ==
    /\ \A t \in DOMAIN tabOrg :
          tabOrg[t].dockId = NoDock \/ tabOrg[t].dockId \in DOMAIN docks
    /\ \A d \in DOMAIN docks : docks[d].realmId \in DOMAIN realms

\* the realm that was deleted contained the dock, and the dock held a tab
C17_Witness ==
    /\ lastOp.op = "delete-realm"
    /\ lastOp.ok
    /\ "d1" \notin DOMAIN docks
    /\ \E t \in lastOp.arg.held : t \in Range(tabs) /\ tabOrg[t].dockId = NoDock

\* C19: delete-dock leaves every tab registered and its session alive, and
\* each tab the dock held ends loose under the realm the dock belonged to,
\* which is also the realm get-sidebar-state reports for it.
C19_DeletedDockReleasesItsTabs ==
    [][(lastOp'.op = "delete-dock" /\ lastOp'.ok) =>
          /\ UNCHANGED <<tabs, tab, activeTabId, destroyCount>>
          /\ \A t \in DOMAIN tabOrg :
                tabOrg[t].dockId = lastOp'.arg.dockId =>
                    /\ t \in DOMAIN tabOrg'
                    /\ tabOrg'[t].dockId = NoDock
                    /\ tabOrg'[t].realmId = docks[lastOp'.arg.dockId].realmId
                    /\ t \in Range(tabs) =>
                          ReportedRealm(Cur', t) = docks[lastOp'.arg.dockId].realmId]_vars

\* the deleted dock had been moved to the first realm while it held a live tab
C19_Witness ==
    /\ lastOp.op = "delete-dock"
    /\ lastOp.ok
    /\ \E t \in lastOp.arg.held :
          /\ t \in Range(tabs)
          /\ tabOrg[t].dockId = NoDock
          /\ tabOrg[t].realmId = "r1"

\* two placements in one container: the same dock, or loose in the same realm
SameContainer(t, u) ==
    /\ tabOrg[t].dockId = tabOrg[u].dockId
    /\ tabOrg[t].dockId = NoDock => tabOrg[t].realmId = tabOrg[u].realmId

\* C18: inside one container (a dock, or the loose set of a realm) no two
\* placements have the same order value, after any sequence of creations,
\* moves, pins and reorders.
C18_OrdersDistinctInContainers ==
    \A t, u \in DOMAIN tabOrg :
        (t # u /\ SameContainer(t, u)) => tabOrg[t].order # tabOrg[u].order

\* C20: no view is asked to load an internal-scheme URL: a tab created with
\* one is loaded with about:blank and flagged as an internal page.
C20_InternalUrlsNeverLoaded ==
    \A i \in 1..Len(loads) :
        /\ ~internalPattern(loads[i].url)
        /\ internalPattern(tab[loads[i].id].url) =>
              /\ loads[i].url = U_blank
              /\ tab[loads[i].id].internal

\* C21: no call appends a history entry for an internal-scheme URL or for
\* the blank placeholder document, whichever command or engine event ran.
C21_NoInternalHistoryEntries ==
    \A i \in 1..Len(hist) :
        hist[i].call = "add" =>
            /\ ~internalPattern(hist[i].url)
            /\ hist[i].url # U_blank

\* C22: a navigate command with an active tab sets that tab's url to the
\* normalized input, sends one tab-updated for it and then one navigate-to-url
\* with the same tab id and url, and changes no other tab; with no active tab
\* it changes nothing and sends nothing.  The bare domain a.co is normalized
\* to https://a.co.
C22_NavigateUpdatesActiveTabOnly ==
    [][lastOp'.op = "navigate" =>
        LET url == normalizeUrl(lastOp'.arg, searchEngine)
        IN  IF activeTabId \in Range(tabs)
            THEN /\ tab' = [tab EXCEPT ![activeTabId].url = url]
                 /\ lastOp'.arg = In_site => tab'[activeTabId].url = U_site
                 /\ Len(sent') = 2
                 /\ sent'[1] = [ch |-> "tab-updated", tab |-> TabPayload(Cur', activeTabId)]
                 /\ sent'[2] = [ch |-> "navigate-to-url", tabId |-> activeTabId, url |-> url]
                 /\ Observable(Cur') = Observable([Cur EXCEPT !.tab = tab'])
                 /\ hist' = <<>> /\ loads' = <<>>
            ELSE Observable(Cur') = Observable(Cur) /\ Quiet(Cur')]_vars

\* navigate ran with two tabs registered and rewrote the active one's url
C22_Witness ==
    /\ lastOp.op = "navigate"
    /\ lastOp.arg = In_site
    /\ Len(tabs) >= 2
    /\ activeTabId \in Range(tabs)
    /\ tab[activeTabId].url = U_site
    /\ \E t \in Range(tabs) : tab[t].url # U_site

\* C23: a navigate command creates no view, destroys none, asks none to
\* load, and adds or removes no tab, whether the active tab shows the internal
\* placeholder or a real page.
C23_NavigateKeepsSessions ==
    [][lastOp'.op = "navigate" =>
        /\ tabs' = tabs
        /\ DOMAIN tab' = DOMAIN tab
        /\ destroyCount' = destroyCount
        /\ tabIdCounter' = tabIdCounter
        /\ loads' = <<>>]_vars

\* the active tab was created as the internal placeholder and navigate took
\* it to a real page
C23_Witness ==
    /\ lastOp.op = "navigate"
    /\ lastOp.arg = In_site
    /\ activeTabId \in Range(tabs)
    /\ tab[activeTabId].internal
    /\ tab[activeTabId].url = U_site
    /\ destroyCount[activeTabId] = 0

\* a request addressed to a loopback, local or file target
LocalTarget(url) ==
    \/ StartsWith(url, <<"f","i","l","e",":">>)
    \/ /\ StartsWith(url, S_http)
       /\ \/ hostname(url) \in {S_localhost, S_loopback}
          \/ EndsWith(hostname(url), <<".","l","o","c","a","l">>)

\* C24: every request is decided in this order: with HTTPS upgrade enabled, a
\* plain-HTTP request that is not addressed to a loopback, local or file
\* target is redirected to its HTTPS form and the filter is not consulted;
\* otherwise, with content filtering enabled, the filter's verdict is
\* applied; otherwise the request is allowed.
C24_DecisionOrder ==
    [][lastOp'.op = "before-request" =>
        LET a == lastOp'.arg
        IN  IF httpsUpgradeEnabled /\ StartsWith(a.url, S_http) /\ ~LocalTarget(a.url)
            THEN /\ a.response = [action |-> "redirect",
                                  url |-> S_https \o Drop(a.url, Len(S_http))]
                 /\ ~a.consulted
            ELSE IF adBlockEnabled /\ blocker
            THEN /\ a.consulted
                 /\ a.response.action = (CASE a.verdict = "allow" -> "allow"
                                           [] a.verdict = "block" -> "cancel"
                                           [] OTHER -> "redirect")
            ELSE a.response = Allow /\ ~a.consulted]_vars

\* C25: each block or redirect decision, an HTTPS-upgrade redirect included,
\* increments one of the counters by exactly one and sends a notification
\* with the new value; an allowed request leaves the counters alone; the
\* reset command sets both counters to zero.
C25_CountersFollowDecisions ==
    [][/\ lastOp'.op = "before-request" =>
            IF lastOp'.arg.response.action \in {"cancel", "redirect"}
            THEN \/ /\ blockedCount' = blockedCount + 1
                    /\ httpsUpgradeCount' = httpsUpgradeCount
                    /\ \E i \in 1..Len(sent') :
                         sent'[i].ch = "ad-blocked" /\ sent'[i].count = blockedCount'
                 \/ /\ httpsUpgradeCount' = httpsUpgradeCount + 1
                    /\ blockedCount' = blockedCount
                    /\ \E i \in 1..Len(sent') :
                         sent'[i].ch = "https-upgraded" /\ sent'[i].count = httpsUpgradeCount'
            ELSE blockedCount' = blockedCount /\ httpsUpgradeCount' = httpsUpgradeCount
       /\ lastOp'.op = "reset-blocked-count" =>
            blockedCount' = 0 /\ httpsUpgradeCount' = 0]_vars

\* the query URL of each engine, up to the encoded query
QueryPrefix(engine) ==
    CASE engine = "duckduckgo" -> Q_duckduckgo
      [] engine = "bing" -> Q_bing
      [] engine = "brave" -> Q_brave
      [] OTHER -> Q_google

\* C26: the url navigate stores depends on the input and the configured
\* search engine only: a bare domain (a.co) gets https:// in front, localhost
\* with a port becomes https://localhost with that port, an internal-scheme
\* URL stays as it is, and an input that is no URL (h w) becomes the
\* configured engine's query URL with the input percent-encoded (h%20w).
C26_NormalizeByInputClass ==
    [][(lastOp'.op = "navigate" /\ activeTabId \in Range(tabs)) =>
        LET x == lastOp'.arg
            y == tab'[activeTabId].url
        IN  /\ y = normalizeUrl(x, searchEngine)
            /\ x = In_site => y = S_https \o x
            /\ x = In_localhost => y = S_https \o S_localhost \o <<":","3">>
            /\ StartsWith(x, S_poseidon) => y = x
            /\ x = In_words => y = QueryPrefix(searchEngine) \o <<"h","%","2","0","w">>
            /\ (~urlPattern(x) /\ ~localhostPattern(x) /\ ~internalPattern(x) /\ ~aboutPattern(x))
                 => y = QueryPrefix(searchEngine) \o encodeURIComponent(x)]_vars

\* two words were typed while a search engine other than the default is set
C26_Witness ==
    /\ lastOp.op = "navigate"
    /\ lastOp.arg = In_words
    /\ searchEngine = "brave"
    /\ activeTabId \in Range(tabs)
    /\ tab[activeTabId].url = Q_brave \o <<"h","%","2","0","w">>

\* C27: an input that starts with http:// or https:// is stored unchanged,
\* whatever follows the scheme; it never becomes a search-engine query.
C27_AbsoluteUrlsUnchanged ==
    [][(lastOp'.op = "navigate" /\ activeTabId \in Range(tabs)) =>
        ((StartsWith(lastOp'.arg, S_http) \/ StartsWith(lastOp'.arg, S_https))
            => tab'[activeTabId].url = lastOp'.arg)]_vars

\* C28: while a tab created with the default internal URL or the settings URL
\* is flagged as an internal page, a navigated, frame-navigated or
\* finished-loading event with an about: target and a title update change
\* neither the tab's url nor its title and make no history call.
C28_PlaceholderLoadIsNotNavigation ==
    [][(/\ lastOp'.op \in {"did-navigate", "did-frame-navigate", "did-finish-load",
                           "page-title-updated"}
        /\ tab[lastOp'.id].internal
        /\ lastOp'.op # "page-title-updated" => StartsWith(lastOp'.arg, S_about)) =>
          /\ tab'[lastOp'.id].url = tab[lastOp'.id].url
          /\ tab'[lastOp'.id].title = tab[lastOp'.id].title
          /\ hist' = <<>>]_vars

\* the view of a tab created with the settings URL reported the main-frame
\* navigation to the blank document
C28_Witness ==
    /\ lastOp.op = "did-frame-navigate"
    /\ lastOp.ok
    /\ lastOp.arg = U_blank
    /\ tab[lastOp.id].internal
    /\ tab[lastOp.id].url = U_settings
    /\ tab[lastOp.id].title = "New Tab"
    /\ sent = <<>>

\* a navigated event: did-navigate, did-navigate-in-page or a main-frame
\* did-frame-navigate
Navigated(op) ==
    \/ op.op \in {"did-navigate", "did-navigate-in-page"}
    \/ op.op = "did-frame-navigate" /\ op.ok

HistoryAdd(S, id, url) ==
    <<[call |-> "add", url |-> url, title |-> S.tab[id].title, favicon |-> S.tab[id].favicon]>>

\* C29 as stated: a navigated event of a live tab sets the tab's url to the
\* target and appends a history entry for it, unless the tab is flagged as an
\* internal page and the target is the blank document about:blank, and then
\* url and history are unchanged.
C29_NavigatedExceptBlankDocument ==
    [][(Navigated(lastOp') /\ lastOp'.id \in Range(tabs)) =>
        IF tab[lastOp'.id].internal /\ lastOp'.arg = U_blank
        THEN tab'[lastOp'.id].url = tab[lastOp'.id].url /\ hist' = <<>>
        ELSE /\ tab'[lastOp'.id].url = lastOp'.arg
             /\ hist' = HistoryAdd(Cur', lastOp'.id, lastOp'.arg)]_vars

\* C29 amended: a navigated event of a live tab sets the tab's url to the
\* target and appends a history entry for it, unless the tab is flagged as an
\* internal page and the target is any about: URL, and then url and history
\* are unchanged.
C29_NavigatedExceptAboutTargets ==
    [][(Navigated(lastOp') /\ lastOp'.id \in Range(tabs)) =>
        IF tab[lastOp'.id].internal /\ StartsWith(lastOp'.arg, S_about)
        THEN tab'[lastOp'.id].url = tab[lastOp'.id].url /\ hist' = <<>>
        ELSE /\ tab'[lastOp'.id].url = lastOp'.arg
             /\ hist' = HistoryAdd(Cur', lastOp'.id, lastOp'.arg)]_vars

\* a flagged tab's view navigated to a web page: url set, one history entry
C29_Witness ==
    /\ lastOp.op = "did-navigate"
    /\ lastOp.arg = U_site
    /\ lastOp.id \in Range(tabs)
    /\ tab[lastOp.id].internal
    /\ tab[lastOp.id].url = U_site
    /\ Len(hist) = 1 /\ hist[1].call = "add" /\ hist[1].url = U_site

Display(t) == <<t.url, t.title, t.favicon, t.isLoading>>
TabUpdates(msgs, id) ==
    {i \in 1..Len(msgs) : msgs[i].ch = "tab-updated" /\ msgs[i].tab.id = id}

\* C30: a step that changes the url, title, favicon or isLoading of a live
\* tab sends exactly one tab-updated for that tab, and it carries the tab's
\* new values.
C30_MutationsAreNotified ==
    [][\A id \in Range(tabs) \cap Range(tabs') :
          Display(tab'[id]) # Display(tab[id]) =>
              /\ Cardinality(TabUpdates(sent', id)) = 1
              /\ \A i \in TabUpdates(sent', id) : sent'[i].tab = TabPayload(Cur', id)]_vars

\* a favicon event changed the tab's favicon and one tab-updated carries it
C30_Witness ==
    /\ lastOp.op = "page-favicon-updated"
    /\ lastOp.id \in Range(tabs)
    /\ tab[lastOp.id].favicon = "f"
    /\ Cardinality(TabUpdates(sent, lastOp.id)) = 1
    /\ \A i \in TabUpdates(sent, lastOp.id) : sent[i].tab.favicon = "f"

\* C31: after a finished-loading event of a live tab that is not flagged as
\* an internal page, and whose session has a current URL, the tab's url is that
\* URL: when they differed the tab is updated and one tab-updated is sent, when
\* they were equal nothing changes and nothing is sent.
C31_FinishedLoadReconcilesUrl ==
    [][(/\ lastOp'.op = "did-finish-load"
        /\ lastOp'.id \in Range(tabs)
        /\ ~tab[lastOp'.id].internal
        /\ lastOp'.arg # <<>>) =>
          /\ tab'[lastOp'.id].url = lastOp'.arg
          /\ hist' = <<>>
          /\ IF tab[lastOp'.id].url # lastOp'.arg
             THEN /\ tab' = [tab EXCEPT ![lastOp'.id].url = lastOp'.arg]
                  /\ sent' = <<[ch |-> "tab-updated", tab |-> TabPayload(Cur', lastOp'.id)]>>
             ELSE tab' = tab /\ sent' = <<>>]_vars

\* the load finished on a page other than the one the tab knew, and the tab
\* was brought to it
C31_Witness ==
    /\ lastOp.op = "did-finish-load"
    /\ lastOp.arg = U_site
    /\ lastOp.id \in Range(tabs)
    /\ ~tab[lastOp.id].internal
    /\ tab[lastOp.id].url = U_site
    /\ Len(sent) = 1

\* C32: a session has at most one interceptor, and the interceptor installed
\* on a session, whatever initialisation, toggles and webview attachments came
\* before, decides each request of that session as the full decision order
\* does: with content filtering enabled and no HTTPS upgrade due, the filter
\* is consulted.
C32_InstalledInterceptorIsFull ==
    [][(/\ lastOp'.op = "before-request"
        /\ interceptor[lastOp'.arg.session] # "none") =>
          LET a == lastOp'.arg
              full == onBeforeRequest(Begin, a.url, a.verdict)
          IN  /\ interceptor[a.session] \in {"main", "blocker", "webview"}
              /\ a.response = full.response
              /\ a.consulted = full.consulted]_vars

\* C33: for every docked tab, the realmId that getSidebarState reports is the
\* realmId of the tab's dock, also after the dock was moved to another realm.
C33_SnapshotTabsFollowTheirDock ==
    \A i \in 1..Len(tabs) :
        LET t == getSidebarState(Cur).tabs[i]
        IN  (t.dockId # NoDock /\ t.dockId \in DOMAIN docks) =>
                t.realmId = docks[t.dockId].realmId

\* C34: in every state the active-tab pointer is null or the id of a tab in
\* the registry, also after the active tab was closed and after every tab was
\* destroyed with the last window.
C34_ActiveTabIsRegistered ==
    activeTabId = NULL \/ activeTabId \in Range(tabs)

\* C35: in every state every key of the tab placements is the id of a live
\* tab: neither the destruction of all tabs at window teardown nor a move, pin
\* or reorder command naming an id that is no live tab leaves a placement
\* without its tab.
C35_PlacementsBelongToLiveTabs ==
    \A t \in DOMAIN tabOrg : t \in Range(tabs)

\* C38: in every state a tab is flagged as showing the internal placeholder
\* exactly when its url is an internal-scheme URL: navigate from the
\* placeholder to a real page clears the flag and navigate from a real page to
\* an internal page sets it.
C38_InternalFlagFollowsUrl ==
    \A t \in Range(tabs) : tab[t].internal <=> internalPattern(tab[t].url)

\* the two reports the engine makes of one main-frame navigation
SameNavigation(a, b) ==
    /\ \/ a.op = "did-navigate" /\ b.op = "did-frame-navigate" /\ b.ok
       \/ b.op = "did-navigate" /\ a.op = "did-frame-navigate" /\ a.ok
    /\ a.id = b.id
    /\ a.arg = b.arg

HistoryAdds(calls, url) == {i \in 1..Len(calls) : calls[i].call = "add" /\ calls[i].url = url}

\* C39: one main-frame navigation of a live tab to a real page, reported by the
\* navigated event and by the main-frame frame-navigated event, appends one
\* history entry for the target and sends one tab-updated, over the two
\* events together.
C39_OneEntryPerNavigation ==
    [][(/\ SameNavigation(lastOp, lastOp')
        /\ lastOp.id \in Range(tabs)
        /\ ~aboutPattern(lastOp.arg)) =>
          /\ Cardinality(HistoryAdds(hist, lastOp.arg))
               + Cardinality(HistoryAdds(hist', lastOp.arg)) = 1
          /\ Cardinality(TabUpdates(sent, lastOp.id))
               + Cardinality(TabUpdates(sent', lastOp.id)) = 1]_vars

Upgraded(a) ==
    /\ StartsWith(a.url, S_http)
    /\ a.response = [action |-> "redirect", url |-> S_https \o Drop(a.url, Len(S_http))]

\* C36: with HTTPS upgrade disabled no request of the default session or of a
\* webview's session is rewritten from http to https, and with HTTPS upgrade
\* enabled every plain-HTTP request to a target that is not local is
\* rewritten, whatever the content-filter switch says.
C36_RewritingFollowsTheUpgradeSwitch ==
    [][lastOp'.op = "before-request" =>
          IF httpsUpgradeEnabled
          THEN (StartsWith(lastOp'.arg.url, S_http) /\ ~LocalTarget(lastOp'.arg.url)) =>
                   Upgraded(lastOp'.arg)
          ELSE ~Upgraded(lastOp'.arg)]_vars

\* C37: after start-up and after any sequence of set, update and reset
\* commands of the settings and of ad-block toggle commands, the gateway's
\* content-filter flag is the stored adBlockerEnabled setting and its
\* HTTPS-upgrade flag is the stored httpsUpgradeEnabled setting.
C37_SwitchesEqualStoredSettings ==
    /\ adBlockEnabled = settings.adBlockerEnabled
    /\ httpsUpgradeEnabled = settings.httpsUpgradeEnabled

====
